---- MODULE Spec2Model ----
(***************************************************************************)
(* A model of kernel_dev_tools: the board registry (BoardConfig), the      *)
(* command runner (BashCommands), the disk deployment (cp), the patch      *)
(* check (check N) and the network discovery (get_ips).                    *)
(*                                                                         *)
(* Strings the code splits, joins or rewrites are sequences of tokens      *)
(* (<<"rpi", "_", "arm64">> is "rpi_arm64"); the empty string is << >>.    *)
(* Each component has its own specification; the variables of the other    *)
(* components rest at their idle values in it.                             *)
(***************************************************************************)
EXTENDS Integers, Sequences, FiniteSets, TLC

VARIABLES
    \* BoardConfig.__init__ (kernel_builder.py)
    bc_pc,          \* "idle" | "new" | "done" | "exit" | "crash"
    bash_env,       \* the environment handed to the constructor
    boards_config,  \* the registry: section name -> section
    sections,       \* boards_config.sections(): the section names in file order
    path_exists,    \* does the file named by config_file exist
    build_params,   \* BoardConfig.build_params
    bc_msg,         \* the message of sys.exit, or the exception raised
    \* BashCommands (kdt_utils.py): the fields of the object
    debug,            \* self.debug
    make_command,     \* self.make_command
    current_command,  \* self.current_command
    \* one call of an entry point of BashCommands
    rn_pc,          \* "idle" | "ready" | "returned" | "exit"
    rn_call,        \* the call: entry point, the caller's arguments and keywords
    rn_os,          \* what the OS did with the command, "none" when it was not launched
    rn_argv,        \* the argument vector handed to subprocess.run, << >> when none was
    rn_printed,     \* the text print_command printed, << >> when nothing
    rn_ret,         \* the value returned to the caller
    rn_msg,         \* the message of sys.exit
    \* KernelBuilder.__disk_copy (kb cp <path>)
    dk_pc,          \* the step the copy is at, "done" | "exit" at its end; "idle"
    dk_dest,        \* the destination: "dev" (/dev/...), "image" (a file) or "folder" of
                    \* kb cp; "net", "net_ramfs" (--ramfs), "net_pack" (-p) of kb scp
    dk_nparts,      \* the partitions parse_fdisk found: 0 (none yet), 1 or 2
    dk_mounted,     \* the mount points mounted now: a subset of {"root", "boot"}
    dk_log,         \* the commands launched, in order
    dk_ret,         \* <<root, boot>> as disk_mount returned them
    dk_failed,      \* the step whose command failed, "" when none did
    dk_msg,         \* the message of sys.exit
    \* KernelBuilder.__build_check_commits (kb check N)
    ck_pc,          \* the step the check is at, "exit" at its end; "idle"
    ck_n,           \* N, the number of commits to check
    ck_patches,     \* the commits of git log, oldest first, once listed
    ck_i,           \* the index in ck_patches of the commit at hand
    ck_head,        \* what the work tree has checked out: the branch or a commit
    ck_branch_name, \* branch_name
    ck_has_warnings,\* has_warnings
    ck_build,       \* <<build_ret, does build_stderr contain "warning:">>
    ck_report,      \* what was reported of each commit: "good" | "bad" | "nobuild"
    ck_status,      \* the exit status of the process, -1 while it runs
    ck_msg,         \* the message of sys.exit, or the exception raised
    \* get_ip.get_ips
    hs_pc,          \* "idle" | "ready" | "exit"
    etc_hosts,      \* the content of /etc/hosts
    host_mac_list,  \* the get_ip section of ~/.kdt: <<hostname, mac>> in file order
    hs_scan,        \* the rows <<address, mac>> arp-scan gave the last run
    hs_prev_hosts,  \* /etc/hosts as the last run found it
    hs_prev_scan,   \* the rows arp-scan gave the run before the last
    hs_runs,        \* the runs of get_ips that wrote /etc/hosts
    hs_msg,         \* the message of sys.exit, the exception of a crash
    \* git_format_patch.remove_change_id
    pf_pc,          \* "idle" | "ready" | "done"
    pf_file,        \* the patch file: [exists, text]
    pf_prev,        \* the patch file as the last call found it
    pf_runs,        \* the calls made
    \* kdt_utils.parse_fdisk
    fd_pc,          \* "idle" | "ready" | "returned" | "exit" | "crash"
    fd_listing,     \* the lines fdisk printed
    fd_ret,         \* the tuple returned
    fd_msg,         \* the message of sys.exit, the exception of a crash
    \* kdt_utils.kdt_update_section, kdt_config_section
    kc_pc,          \* "idle" | "ready" | "done"
    kc_file,        \* ~/.kdt: [exists, text]
    kc_prev,        \* ~/.kdt as the last call found it
    kc_name,        \* the section name of the last call
    kc_section,     \* the section written by the last call
    \* kb config: KernelBuilder.__kernel_config
    cf_pc,          \* "idle" | "ready" | "returned" | "exit"
    cf_proc_gz,     \* /proc/config.gz exists
    cf_log,         \* the commands launched, in order: [argv, status]
    cf_dotconfig,   \* <build>/.config: "absent" | "old" | "copied" | "truncated" | "unzipped"
    cf_msg,         \* the message of sys.exit
    \* KernelBuilder: its construction, kb build, and the words passed on to make
    kb_pc,          \* the step the operation is at, "done" | "exit" at its end; "idle"
    kb_opts,        \* what the operation was given: options, arguments, files found
    kb_log,         \* the commands launched, in order: [argv, status]
    kb_out,         \* the lines reported on the terminal, in order
    kb_path,        \* environ["PATH"] of the BashCommands object
    kb_status,      \* the exit status of the process, -1 while it runs
    kb_msg          \* the message of sys.exit

boardVars == <<bc_pc, bash_env, boards_config, sections, path_exists, build_params, bc_msg>>
bashVars == <<debug, make_command, current_command>>
runnerVars == <<rn_pc, rn_call, rn_os, rn_argv, rn_printed, rn_ret, rn_msg>>

diskVars == <<dk_pc, dk_dest, dk_nparts, dk_mounted, dk_log, dk_ret, dk_failed, dk_msg>>
checkVars == <<ck_pc, ck_n, ck_patches, ck_i, ck_head, ck_branch_name, ck_has_warnings,
               ck_build, ck_report, ck_status, ck_msg>>
hostsVars == <<hs_pc, etc_hosts, host_mac_list, hs_scan, hs_prev_hosts, hs_prev_scan, hs_runs,
               hs_msg>>

patchVars == <<pf_pc, pf_file, pf_prev, pf_runs>>
fdiskVars == <<fd_pc, fd_listing, fd_ret, fd_msg>>
kdtVars == <<kc_pc, kc_file, kc_prev, kc_name, kc_section>>
configVars == <<cf_pc, cf_proc_gz, cf_log, cf_dotconfig, cf_msg>>
builderVars == <<kb_pc, kb_opts, kb_log, kb_out, kb_path, kb_status, kb_msg>>
toolsVars == <<patchVars, fdiskVars, kdtVars, configVars, builderVars>>

vars == <<boardVars, bashVars, runnerVars, diskVars, checkVars, hostsVars, toolsVars>>

\* what the actions of one component leave alone
exceptBoard == <<bashVars, runnerVars, diskVars, checkVars, hostsVars, toolsVars>>
exceptRunner == <<boardVars, diskVars, checkVars, hostsVars, toolsVars>>
exceptDisk == <<boardVars, debug, make_command, runnerVars, checkVars, hostsVars, toolsVars>>
exceptCheck == <<boardVars, debug, current_command, runnerVars, diskVars, hostsVars, toolsVars>>
exceptHosts == <<boardVars, bashVars, runnerVars, diskVars, checkVars, toolsVars>>
exceptPatch == <<boardVars, bashVars, runnerVars, diskVars, checkVars, hostsVars, fdiskVars,
                 kdtVars, configVars, builderVars>>
exceptFdisk == <<boardVars, bashVars, runnerVars, diskVars, checkVars, hostsVars, patchVars,
                 kdtVars, configVars, builderVars>>
exceptKdt == <<boardVars, bashVars, runnerVars, diskVars, checkVars, hostsVars, patchVars,
               fdiskVars, configVars, builderVars>>
exceptConfig == <<boardVars, bashVars, runnerVars, diskVars, checkVars, hostsVars, patchVars,
                  fdiskVars, kdtVars, builderVars>>
exceptBuilder == <<boardVars, bashVars, runnerVars, diskVars, checkVars, hostsVars, patchVars,
                   fdiskVars, kdtVars, configVars>>

(***************************************************************************)
(* Helpers on token strings and dictionaries                               *)
(***************************************************************************)
Range(s) == {s[i] : i \in DOMAIN s}

IndexOf(s, t) == CHOOSE i \in DOMAIN s : s[i] = t /\ \A j \in 1..(i - 1) : s[j] # t

\* str.replace on token strings: every occurrence of token t becomes the tokens of new
RECURSIVE Replace(_, _, _)
Replace(s, t, new) ==
    IF s = << >> THEN << >>
    ELSE (IF Head(s) = t THEN new ELSE <<Head(s)>>) \o Replace(Tail(s), t, new)

\* bool(x) of a string
Bool(s) == s # << >>

\* d[k] = v on a dict
Put(d, k, v) == (k :> v) @@ d

\* a file that does not exist
NoFile == [exists |-> FALSE, text |-> << >>]

(***************************************************************************)
(* kdt_utils.get_config                                                    *)
(***************************************************************************)
MissingKey(name) == <<"Error! Missing ", name, " in board configuration section">>

\* [exit |-> the sys.exit message or << >>, value |-> the value]
get_config(section, name, mandatory) ==
    IF name \in DOMAIN section THEN [exit |-> << >>, value |-> section[name]]
    ELSE IF mandatory THEN [exit |-> MissingKey(name), value |-> << >>]
    ELSE [exit |-> << >>, value |-> << >>]

(***************************************************************************)
(* kernel_builder.available_configured_boards                              *)
(***************************************************************************)
SectionBoard(name) == SubSeq(name, 1, IndexOf(name, "_") - 1)
\* the split at the last underscore instead of the first
SectionArchLast(name) ==
    SubSeq(name, (CHOOSE i \in DOMAIN name :
                     name[i] = "_" /\ \A j \in (i + 1)..Len(name) : name[j] # "_") + 1,
           Len(name))
SectionArch(name) == SubSeq(name, IndexOf(name, "_") + 1, Len(name))

RECURSIVE available_configured_boards(_)
available_configured_boards(names) ==
    IF names = << >> THEN << >>
    ELSE LET rest == available_configured_boards(SubSeq(names, 1, Len(names) - 1))
             last == names[Len(names)]
             board == SectionBoard(last)
             arch == SectionArch(last)
         IN  IF board \in DOMAIN rest
             THEN [rest EXCEPT ![board] = Append(@, arch)]
             ELSE Put(rest, board, <<arch>>)

(***************************************************************************)
(* BoardConfig.set_arch                                                    *)
(***************************************************************************)
X86_64 == <<"x86", "_", "64">>
X86 == <<"x86">>
ARM64 == <<"arm64">>

ArchNotConfigured(arch, board) == <<"Error! Arch ", arch, " not configured for ", board>>

\* [exit |-> message or << >>, params |-> build_params]
set_arch(params, available_boards_arch, env) ==
    LET archs == available_boards_arch[params["board_name"]]
    IN  IF "arch" \in DOMAIN env
        THEN IF env["arch"] \notin Range(archs)
             THEN [exit |-> ArchNotConfigured(env["arch"], params["board_name"]),
                   params |-> params]
             ELSE [exit |-> << >>, params |-> Put(params, "arch", env["arch"])]
        ELSE IF Len(archs) = 1
             THEN [exit |-> << >>, params |-> Put(params, "arch", archs[1])]
             ELSE IF X86_64 \in Range(archs) \/ X86 \in Range(archs)
                  THEN [exit |-> << >>, params |-> Put(params, "arch", X86_64)]
                  ELSE [exit |-> << >>, params |-> Put(params, "arch", ARM64)]

\* BoardConfig.board_arch
board_arch(params) == params["board_name"] \o <<"_">> \o params["arch"]

\* BoardConfig.is_x86
is_x86(params) == params["arch"] \in {X86_64, X86}

(***************************************************************************)
(* BoardConfig.select_kernel_config                                        *)
(***************************************************************************)
MoreThanOne == <<"Error! More than one kernel config is set">>
NoConfig == <<"Error! No config options are set.">>
FileMissing(f) == <<"Error! File ">> \o f \o <<" doesn't exist.">>

\* Python's a ^ b on booleans
Xor(a, b) == a # b

\* "not bool(config_target) ^ bool(config_file) ^ bool(config_gz)": ^ binds tighter
\* than not, and associates to the left
OnlyOneSetTest(config_target, config_file, config_gz) ==
    Xor(Xor(Bool(config_target), Bool(config_file)), Bool(config_gz))

\* One level (the environment, or the board section) of select_kernel_config, once
\* one of the three is known to be set. subst is the config_file as it is looked up.
select_from(params, config_target, config_file, config_gz, exists) ==
    IF ~OnlyOneSetTest(config_target, config_file, config_gz)
    THEN [exit |-> MoreThanOne, params |-> params]
    ELSE LET p1 == IF Bool(config_target)
                   THEN Put(Put(params, "config_to_use", <<"config_target">>),
                            "config_target", config_target)
                   ELSE params
             p2 == IF Bool(config_file)
                   THEN Put(p1, "config_to_use", <<"config_file">>)
                   ELSE p1
             p3 == IF Bool(config_file) /\ exists
                   THEN Put(p2, "config_file", config_file)
                   ELSE p2
             p4 == IF Bool(config_gz)
                   THEN Put(p3, "config_to_use", <<"config_gz">>)
                   ELSE p3
         IN  IF Bool(config_file) /\ ~exists
             THEN [exit |-> FileMissing(config_file), params |-> p2]
             ELSE [exit |-> << >>, params |-> p4]

\* the board section asked first, the environment only when the section sets none
select_kernel_config_section_first(params, env, board_section, kdt_boards, exists) ==
    LET e_target == get_config(env, "config_target", FALSE).value
        e_file == get_config(env, "config_file", FALSE).value
        e_gz == get_config(env, "config_gz", FALSE).value
        s_target == get_config(board_section, "config_target", FALSE).value
        s_file == get_config(board_section, "config_file", FALSE).value
        s_gz == get_config(board_section, "config_gz", FALSE).value
    IN  IF Bool(s_target) \/ Bool(s_file) \/ Bool(s_gz)
        THEN select_from(params, s_target, Replace(s_file, "$kdt_boards", kdt_boards),
                         s_gz, exists)
        ELSE IF Bool(e_target) \/ Bool(e_file) \/ Bool(e_gz)
        THEN select_from(params, e_target, e_file, e_gz, exists)
        ELSE [exit |-> NoConfig, params |-> params]
select_kernel_config(params, env, board_section, kdt_boards, exists) ==
    LET e_target == get_config(env, "config_target", FALSE).value
        e_file == get_config(env, "config_file", FALSE).value
        e_gz == get_config(env, "config_gz", FALSE).value
        s_target == get_config(board_section, "config_target", FALSE).value
        s_file == get_config(board_section, "config_file", FALSE).value
        s_gz == get_config(board_section, "config_gz", FALSE).value
    IN  IF Bool(e_target) \/ Bool(e_file) \/ Bool(e_gz)
        THEN select_from(params, e_target, e_file, e_gz, exists)
        ELSE IF Bool(s_target) \/ Bool(s_file) \/ Bool(s_gz)
        THEN select_from(params, s_target, Replace(s_file, "$kdt_boards", kdt_boards),
                         s_gz, exists)
        ELSE [exit |-> NoConfig, params |-> params]

(***************************************************************************)
(* BoardConfig.__init__                                                    *)
(***************************************************************************)
BoardNotSelected == <<"Error! Board not selected.">>
BoardNotConfigured(board) == <<"Error! Board ", board, " not configured">>
KeyError(name) == <<"KeyError: ">> \o name
IndexError == <<"IndexError: string index out of range">>

\* get_board_config, the closure of __init__: reads one key into build_params
get_board_config(params, board_sect, env, kdt_boards, name, mandatory) ==
    LET got == get_config(board_sect, name, mandatory)
        b_cfg == Replace(Replace(got.value, "~", env["HOME"]), "$kdt_boards", kdt_boards)
    IN  IF got.exit # << >> THEN [exit |-> got.exit, params |-> params]
        ELSE [exit |-> << >>, params |-> Put(params, name, b_cfg)]

\* get_board_config over a list of <<name, mandatory>>, stopping at the first exit
RECURSIVE get_board_configs(_, _, _, _, _)
get_board_configs(params, board_sect, env, kdt_boards, names) ==
    IF names = << >> THEN [exit |-> << >>, params |-> params]
    ELSE LET r == get_board_config(params, board_sect, env, kdt_boards,
                                   Head(names)[1], Head(names)[2])
         IN  IF r.exit # << >> THEN r
             ELSE get_board_configs(r.params, board_sect, env, kdt_boards, Tail(names))

KeysBeforeRamfs ==
    <<<<"kernel_target", TRUE>>, <<"kernel_file", TRUE>>, <<"pkg_folder", FALSE>>,
      <<"ramfs_file", FALSE>>>>
KeysAfterRamfs ==
    <<<<"dtb_path", FALSE>>, <<"on", FALSE>>, <<"off", FALSE>>, <<"overlay_path", FALSE>>,
      <<"vendor", FALSE>>, <<"cc", FALSE>>, <<"cc_path", FALSE>>>>

\* 'dtbs' for the device-tree path alone
build_target_dtb_path_only(params) ==
    <<params["kernel_target"], <<"modules">>>>
    \o (IF Bool(params["dtb_path"]) THEN <<<<"dtbs">>>> ELSE << >>)
\* 'dtbs' once for each of the three keys that is set
build_target_dtbs_each(params) ==
    <<params["kernel_target"], <<"modules">>>>
    \o (IF Bool(params["dtb_path"]) THEN <<<<"dtbs">>>> ELSE << >>)
    \o (IF Bool(params["vendor"]) THEN <<<<"dtbs">>>> ELSE << >>)
    \o (IF Bool(params["overlay_path"]) THEN <<<<"dtbs">>>> ELSE << >>)
\* lines 117-119
build_target(params) ==
    <<params["kernel_target"], <<"modules">>>>
    \o (IF Bool(params["dtb_path"]) \/ Bool(params["vendor"]) \/ Bool(params["overlay_path"])
        THEN <<<<"dtbs">>>> ELSE << >>)

\* lines 103-119: the board build params, once the config source is selected
read_build_params(params, board_sect, env, kdt_boards) ==
    LET r1 == get_board_configs(params, board_sect, env, kdt_boards, KeysBeforeRamfs)
        r2 == IF r1.exit = << >> /\ Bool(r1.params["ramfs_file"])
              THEN get_board_config(r1.params, board_sect, env, kdt_boards,
                                    "update_ramfs", TRUE)
              ELSE r1
        r3 == IF r2.exit = << >>
              THEN get_board_configs(r2.params, board_sect, env, kdt_boards, KeysAfterRamfs)
              ELSE r2
    IN  IF r3.exit # << >> THEN r3
        ELSE [exit |-> << >>,
              params |-> Put(r3.params, "build_target", build_target(r3.params))]

\* The constructor: [pc |-> "done" | "exit" | "crash", params, msg]
BoardConfigInit(env, config, names, kdt_boards, exists) ==
    LET available_boards_arch == available_configured_boards(names)
        p0 == << >>
    IN  IF "board" \notin DOMAIN env
        THEN \* board_options is the joined text; with no board it is '' and
             \* board_options[0] raises before sys.exit is called
             IF DOMAIN available_boards_arch = {}
             THEN [pc |-> "crash", params |-> p0, msg |-> IndexError]
             ELSE [pc |-> "exit", params |-> p0, msg |-> BoardNotSelected]
        ELSE IF env["board"] \notin DOMAIN available_boards_arch
        THEN [pc |-> "exit", params |-> p0, msg |-> BoardNotConfigured(env["board"])]
        ELSE LET p1 == Put(p0, "board_name", env["board"])
                 a == set_arch(p1, available_boards_arch, env)
             IN  IF a.exit # << >>
                 THEN [pc |-> "exit", params |-> a.params, msg |-> a.exit]
                 ELSE IF board_arch(a.params) \notin DOMAIN config
                 THEN [pc |-> "crash", params |-> a.params,
                       msg |-> KeyError(board_arch(a.params))]
                 ELSE LET board_sect == config[board_arch(a.params)]
                          s == select_kernel_config(a.params, env, board_sect,
                                                    kdt_boards, exists)
                          r == IF s.exit = << >>
                               THEN read_build_params(s.params, board_sect, env, kdt_boards)
                               ELSE s
                      IN  IF r.exit # << >>
                          THEN [pc |-> "exit", params |-> r.params, msg |-> r.exit]
                          ELSE [pc |-> "done", params |-> r.params, msg |-> << >>]

(***************************************************************************)
(* The registries, sections and environments the constructor is run on     *)
(***************************************************************************)
RPI == <<"rpi">>
PC == <<"pc">>
Sect(board, arch) == board \o <<"_">> \o arch

\* the example of the README (two boards), a board of two 32-bit arches, a
\* board of an x86 and an arm arch, and a boards file without sections (or no
\* boards file: ConfigParser.read skips a file it cannot open)
Registries ==
    { <<Sect(RPI, ARM64), Sect(RPI, X86), Sect(PC, X86_64)>>,
      <<Sect(RPI, <<"arm">>), Sect(RPI, <<"riscv">>)>>,
      <<Sect(PC, X86), Sect(PC, <<"arm">>)>>,
      << >> }

KdtBoards == <<"/home/u/kdt/boards">>
Home == <<"/home/u">>

\* the value a key has when the section (or the environment) sets it
ValueOf(k) ==
    CASE k = "config_target" -> <<"defconfig">>
      [] k = "config_file"   -> <<"$kdt_boards", "/rpi.config">>
      [] k = "config_gz"     -> <<"y">>
      [] k = "kernel_target" -> <<"Image">>
      [] k = "kernel_file"   -> <<"kernel8.img">>
      [] k = "pkg_folder"    -> <<"~", "/pkg">>
      [] k = "ramfs_file"    -> <<"initramfs.img">>
      [] k = "update_ramfs"  -> <<"mkinitcpio", " ", "-k", " ", "$version", " ", "-g", " ",
                                  "$ramfs_file">>
      [] k = "dtb_path"      -> <<"dtbs">>
      [] k = "vendor"        -> <<"broadcom">>
      [] k = "overlay_path"  -> <<"overlays">>
      [] k = "cc"            -> <<"aarch64-linux-gnu-">>
      [] k = "cc_path"       -> <<"~", "/toolchain/bin">>
      [] k = "on"            -> <<"power on">>
      [] k = "off"           -> <<"power off">>
      [] k = "HOME"          -> Home
      [] k = "PATH"          -> <<"/usr/bin">>

ConfigKeys == {"config_target", "config_file", "config_gz"}
\* the keys a section may or may not set; cc, cc_path, on, off, pkg_folder are set
SectionOptKeys ==
    ConfigKeys \cup {"kernel_target", "kernel_file", "ramfs_file", "update_ramfs",
                     "dtb_path", "vendor", "overlay_path"}
SectionSetKeys == {"cc", "cc_path", "on", "off", "pkg_folder"}
Sections == { [k \in SectionSetKeys \cup D |-> ValueOf(k)] : D \in SUBSET SectionOptKeys }

EnvBoards == {RPI, PC}
EnvArchs == {ARM64}
Environments ==
    { [k \in {"HOME", "PATH"} \cup D |-> ValueOf(k)] @@ b @@ a :
        D \in SUBSET ConfigKeys,
        b \in {<< >>} \cup {("board" :> x) : x \in EnvBoards},
        a \in {<< >>} \cup {("arch" :> x) : x \in EnvArchs} }

BoardIdle ==
    /\ bc_pc = "idle"
    /\ bash_env = << >>
    /\ boards_config = << >>
    /\ sections = << >>
    /\ path_exists = FALSE
    /\ build_params = << >>
    /\ bc_msg = << >>

BoardInit ==
    /\ bc_pc = "new"
    /\ bash_env \in Environments
    /\ sections \in Registries
    /\ \E sect \in Sections : boards_config = [n \in Range(sections) |-> sect]
    /\ path_exists \in BOOLEAN
    /\ build_params = << >>
    /\ bc_msg = << >>

\* BoardConfig(boards_file, bash_env, kdt_boards)
BoardConfigNew ==
    /\ bc_pc = "new"
    /\ LET r == BoardConfigInit(bash_env, boards_config, sections, KdtBoards, path_exists)
       IN  /\ bc_pc' = r.pc
           /\ build_params' = r.params
           /\ bc_msg' = r.msg
    /\ UNCHANGED <<bash_env, boards_config, sections, path_exists, exceptBoard>>

BoardNext == BoardConfigNew



(***************************************************************************)
(* BashCommands: the command runner                                        *)
(***************************************************************************)
\* A command is a list of arguments, each argument a token string.
Words(list) == [i \in DOMAIN list |-> <<list[i]>>]

SshParams == Words(<<"-o LogLevel=ERROR", "-o UserKnownHostsFile=/dev/null",
                     "-o StrictHostKeyChecking=no">>)
RsyncParams == Words(<<"rsync", "-rcptD", "--exclude=.*", "--mkpath", "--no-links">>)
SshCommand == Words(<<"ssh">>) \o SshParams
ScpCommand == Words(<<"scp">>) \o SshParams

\* ' '.join(list)
RECURSIVE Join(_)
Join(list) ==
    IF list = << >> THEN << >>
    ELSE IF Len(list) = 1 THEN list[1]
    ELSE Head(list) \o <<" ">> \o Join(Tail(list))

\* f"-e {' '.join(ssh_command)}" and f"-e \"{' '.join(ssh_command)}\"", each one argument
ssh_for_rsync == <<"-e ">> \o Join(SshCommand)
ssh_for_rsync_with_qmark == <<"-e ", "\"">> \o Join(SshCommand) \o <<"\"">>

\* self.commands
commands ==
    [ssh        |-> SshCommand,
     scp        |-> ScpCommand,
     net_rsync  |-> RsyncParams \o <<ssh_for_rsync>>,
     disk_rsync |-> RsyncParams,
     mount      |-> Words(<<"mount">>),
     umount     |-> Words(<<"umount">>)]

\* BashCommands.set_make
set_make(arch, kernel_build_path, install_mod_path, cross_compiler) ==
    <<<<"make">>, <<"-j", "cpu_count">>, <<"ARCH=">> \o arch, <<"O=">> \o kernel_build_path,
      <<"INSTALL_MOD_PATH=">> \o install_mod_path>>
    \o (IF cross_compiler # <<"None">> THEN <<<<"CROSS_COMPILE=">> \o cross_compiler>>
        ELSE << >>)

\* BashCommands.get_make_arguments
get_make_arguments(mk) == Tail(mk)

\* BashCommands.add_make_argument
add_make_argument(mk, argument) == mk \o <<argument>>

\* what the OS does with a launched command
OsStatus == {"notfound", "nonzero", "zero"}

\* subprocess.run(command, check=check): the exception raised, or the way it returned
Run(os, check) ==
    CASE os.status = "notfound" -> "FileNotFoundError"
      [] os.status = "nonzero" /\ check -> "CalledProcessError"
      [] os.status = "nonzero" /\ ~check -> "returncode # 0"
      [] os.status = "zero" -> "returncode = 0"

\* the values the entry points return
RetBool(b) == [kind |-> "bool", ok |-> b, out |-> << >>, err |-> << >>]
RetTuple(b, out, err) == [kind |-> "tuple", ok |-> b, out |-> out, err |-> err]
RetNone == [kind |-> "none", ok |-> FALSE, out |-> << >>, err |-> << >>]
\* Python's truth value of a returned value: a tuple of three is true, None is false
Truthy(ret) == ret.kind = "tuple" \/ (ret.kind = "bool" /\ ret.ok)

\* BashCommands.print_command: [command |-> the list after the call (it is rewritten
\* in place), printed |-> the text printed, exec |-> the value returned]
print_command(command, debug_type, dbg) ==
    LET do_print == dbg /\ debug_type[1]
        shown == IF do_print /\ ssh_for_rsync \in Range(command)
                 THEN [command EXCEPT ![IndexOf(command, ssh_for_rsync)] =
                                          ssh_for_rsync_with_qmark]
                 ELSE command
    IN  [command |-> shown,
         printed |-> IF do_print THEN Join(shown) ELSE << >>,
         exec    |-> IF dbg THEN debug_type[2] ELSE TRUE]

Fail(command) == <<"FAIL: ">> \o Join(command)
MakeNotSet == <<"FAIL: Make command not set">>

\* the outcome of a call of an entry point: argv is the list handed to
\* subprocess.run, << >> when the command was not launched
Returned(ret, printed, argv) ==
    [term |-> "return", ret |-> ret, msg |-> << >>, printed |-> printed, argv |-> argv]
Exited(msg, printed, argv) ==
    [term |-> "exit", ret |-> RetNone, msg |-> msg, printed |-> printed, argv |-> argv]

\* kdt_run without CalledProcessError in its except clause: the exception of a
\* checked command that exits non-zero ends the process
kdt_run_uncaught(command, debug_type, sudo, check, os, dbg) ==
    LET cmd == IF sudo THEN <<<<"sudo">>>> \o command ELSE command
        p == print_command(cmd, debug_type, dbg)
        r == Run(os, check)
    IN  IF ~p.exec THEN Returned(RetBool(TRUE), p.printed, << >>)
        ELSE IF r = "FileNotFoundError" THEN Returned(RetBool(FALSE), p.printed, p.command)
        ELSE IF r = "CalledProcessError" THEN Exited(os.err, p.printed, p.command)
        ELSE Returned(RetBool(r = "returncode = 0"), p.printed, p.command)

\* BashCommands.kdt_run. print_command rewrites the list it is given in place, and
\* that list is the one handed to subprocess.run.
kdt_run(command, debug_type, sudo, check, os, dbg) ==
    LET cmd == IF sudo THEN <<<<"sudo">>>> \o command ELSE command
        p == print_command(cmd, debug_type, dbg)
        r == Run(os, check)
    IN  IF ~p.exec THEN Returned(RetBool(TRUE), p.printed, << >>)
        ELSE IF r \in {"CalledProcessError", "FileNotFoundError"}
        THEN Returned(RetBool(FALSE), p.printed, p.command)
        ELSE Returned(RetBool(r = "returncode = 0"), p.printed, p.command)

\* kdt_run_str with FileNotFoundError handled the way kdt_run handles it
kdt_run_str_soft(command, debug_type, sudo, check, os, dbg) ==
    LET cmd == IF sudo THEN <<<<"sudo">>>> \o command ELSE command
        p == print_command(cmd, debug_type, dbg)
        r == Run(os, check)
    IN  IF ~p.exec THEN Returned(RetTuple(TRUE, << >>, << >>), p.printed, << >>)
        ELSE IF r = "FileNotFoundError"
        THEN Returned(RetTuple(FALSE, << >>, << >>), p.printed, p.command)
        ELSE IF r = "CalledProcessError" THEN Exited(os.err, p.printed, p.command)
        ELSE Returned(RetTuple(r = "returncode = 0", os.out, os.err), p.printed, p.command)

\* BashCommands.kdt_run_str
kdt_run_str(command, debug_type, sudo, check, os, dbg) ==
    LET cmd == IF sudo THEN <<<<"sudo">>>> \o command ELSE command
        p == print_command(cmd, debug_type, dbg)
        r == Run(os, check)
    IN  IF ~p.exec THEN Returned(RetTuple(TRUE, << >>, << >>), p.printed, << >>)
        ELSE IF r = "FileNotFoundError" THEN Exited(Fail(p.command), p.printed, p.command)
        ELSE IF r = "CalledProcessError" THEN Exited(os.err, p.printed, p.command)
        ELSE Returned(RetTuple(r = "returncode = 0", os.out, os.err), p.printed, p.command)

\* BashCommands.make_pass: the list printed and the list run are built separately
make_pass(mk, args, os, dbg) ==
    LET p == print_command(mk \o args, <<TRUE, FALSE>>, dbg)
        r == Run(os, FALSE)
    IN  IF ~p.exec THEN Returned(RetTuple(TRUE, << >>, << >>), p.printed, << >>)
        ELSE IF Len(mk) = 0 THEN Exited(MakeNotSet, p.printed, << >>)
        ELSE IF r = "FileNotFoundError" THEN Exited(Fail(mk \o args), p.printed, mk \o args)
        ELSE Returned(RetNone, p.printed, mk \o args)

\* BashCommands.make
make(mk, args, os, dbg) ==
    IF Len(mk) = 0 THEN Exited(MakeNotSet, << >>, << >>)
    ELSE LET r == kdt_run(mk \o args, <<TRUE, FALSE>>, FALSE, TRUE, os, dbg)
         IN  [r EXCEPT !.ret = RetNone]

\* BashCommands.make_str
make_str(mk, args, debug_type, check, os, dbg) ==
    IF Len(mk) = 0 THEN Exited(MakeNotSet, << >>, << >>)
    ELSE kdt_run_str(mk \o args, debug_type, FALSE, check, os, dbg)

\* BashCommands.__run_current_command_check__, the body of the ssh, scp, net_rsync,
\* disk_rsync, mount and umount wrappers; cur is self.current_command
run_current_command_check(cur, arguments, sudo, os, dbg) ==
    LET cmd == (IF sudo THEN <<<<"sudo">>>> ELSE << >>) \o cur \o arguments
        p == print_command(cmd, <<TRUE, FALSE>>, dbg)
        r == Run(os, TRUE)
    IN  IF ~p.exec THEN Returned(RetBool(TRUE), p.printed, << >>)
        ELSE IF r = "FileNotFoundError" THEN Exited(Fail(p.command), p.printed, p.command)
        ELSE IF r = "CalledProcessError" THEN Exited(os.out, p.printed, p.command)
        ELSE Returned(RetBool(TRUE), p.printed, p.command)

\* a lookup that keeps the command of the first wrapper looked up
getattr_first_lookup(item, cur) ==
    IF cur # << >> THEN cur ELSE IF item \in DOMAIN commands THEN commands[item] ELSE cur
\* BashCommands.__getattr__: the new self.current_command
getattr(item, cur) == IF item \in DOMAIN commands THEN commands[item] ELSE cur

(***************************************************************************)
(* Calls of the entry points, one at a time, on one BashCommands object    *)
(***************************************************************************)
MaxMakeArgs == 8

Stdout == <<"stdout">>
Stderr == <<"stderr">>
OsOutcomes == [status : OsStatus, out : {Stdout}, err : {Stderr}]
DebugTypes == BOOLEAN \X BOOLEAN

\* the caller's commands: a compiler probe, a sync, and an rsync over ssh
CallerCommands ==
    { Words(<<"gcc", "--version">>), Words(<<"sync">>),
      <<<<"rsync">>, ssh_for_rsync, <<"src">>, <<"root@ip:dst">>>> }
CallerArguments == { Words(<<"src", "dst">>), Words(<<"modules_install">>) }

Call(entry, command, debug_type, sudo, check) ==
    [entry |-> entry, command |-> command, debug_type |-> debug_type,
     sudo |-> sudo, check |-> check]
NoCall == Call("", << >>, <<FALSE, FALSE>>, FALSE, FALSE)
NoOs == [status |-> "none", out |-> << >>, err |-> << >>]

BashIdle ==
    /\ debug = FALSE
    /\ make_command = << >>
    /\ current_command = << >>

\* BashCommands.__init__
BashInit ==
    /\ debug \in BOOLEAN
    /\ make_command = << >>
    /\ current_command = << >>

RunnerIdle ==
    /\ rn_pc = "idle"
    /\ rn_call = NoCall
    /\ rn_os = NoOs
    /\ rn_argv = << >>
    /\ rn_printed = << >>
    /\ rn_ret = RetNone
    /\ rn_msg = << >>

RunnerInit ==
    /\ rn_pc = "ready"
    /\ rn_call = NoCall
    /\ rn_os = NoOs
    /\ rn_argv = << >>
    /\ rn_printed = << >>
    /\ rn_ret = RetNone
    /\ rn_msg = << >>

Callable == rn_pc = "ready"

\* the caller sees the outcome r of its call; os is what the OS did if it was launched
Outcome(call, r, os) ==
    /\ rn_call' = call
    /\ rn_os' = IF r.argv # << >> THEN os ELSE NoOs
    /\ rn_argv' = r.argv
    /\ rn_printed' = r.printed
    /\ rn_ret' = r.ret
    /\ rn_msg' = r.msg
    /\ rn_pc' = IF r.term = "exit" THEN "exit" ELSE "returned"

\* the caller goes on after a call that returned
RnContinue ==
    /\ rn_pc = "returned"
    /\ rn_pc' = "ready"
    /\ rn_call' = NoCall
    /\ rn_os' = NoOs
    /\ rn_argv' = << >>
    /\ rn_printed' = << >>
    /\ rn_ret' = RetNone
    /\ rn_msg' = << >>
    /\ UNCHANGED <<bashVars, exceptRunner>>

RnSetMake ==
    /\ Callable
    /\ \E cc \in {<<"None">>, <<"aarch64-linux-gnu-">>} :
           make_command' = set_make(ARM64, <<"build/rpi", "/kernel">>,
                                    <<"build/rpi", "/install_modules">>, cc)
    /\ UNCHANGED <<debug, current_command, runnerVars, exceptRunner>>

RnAddMakeArgument ==
    /\ Callable
    /\ Len(make_command) < MaxMakeArgs
    /\ make_command' = add_make_argument(make_command, <<"W=", "1">>)
    /\ UNCHANGED <<debug, current_command, runnerVars, exceptRunner>>

RnKdtRun ==
    /\ Callable
    /\ \E command \in CallerCommands, dt \in DebugTypes, sudo \in BOOLEAN,
          check \in BOOLEAN, os \in OsOutcomes :
           Outcome(Call("kdt_run", command, dt, sudo, check),
                   kdt_run(command, dt, sudo, check, os, debug), os)
    /\ UNCHANGED <<bashVars, exceptRunner>>

RnKdtRunStr ==
    /\ Callable
    /\ \E command \in CallerCommands, dt \in DebugTypes, sudo \in BOOLEAN,
          check \in BOOLEAN, os \in OsOutcomes :
           Outcome(Call("kdt_run_str", command, dt, sudo, check),
                   kdt_run_str(command, dt, sudo, check, os, debug), os)
    /\ UNCHANGED <<bashVars, exceptRunner>>

RnMake ==
    /\ Callable
    /\ \E args \in CallerArguments, os \in OsOutcomes :
           Outcome(Call("make", args, <<TRUE, FALSE>>, FALSE, TRUE),
                   make(make_command, args, os, debug), os)
    /\ UNCHANGED <<bashVars, exceptRunner>>

RnMakeStr ==
    /\ Callable
    /\ \E args \in CallerArguments, dt \in DebugTypes, check \in BOOLEAN,
          os \in OsOutcomes :
           Outcome(Call("make_str", args, dt, FALSE, check),
                   make_str(make_command, args, dt, check, os, debug), os)
    /\ UNCHANGED <<bashVars, exceptRunner>>

RnMakePass ==
    /\ Callable
    /\ \E args \in CallerArguments, os \in OsOutcomes :
           Outcome(Call("make_pass", args, <<TRUE, FALSE>>, FALSE, FALSE),
                   make_pass(make_command, args, os, debug), os)
    /\ UNCHANGED <<bashVars, exceptRunner>>

\* bash.<item>(arguments, sudo=sudo): the attribute lookup, then the call
RnWrapper ==
    /\ Callable
    /\ \E item \in DOMAIN commands, args \in CallerArguments, sudo \in BOOLEAN,
          os \in OsOutcomes :
           /\ current_command' = getattr(item, current_command)
           /\ Outcome(Call(item, args, <<TRUE, FALSE>>, sudo, TRUE),
                      run_current_command_check(current_command', args, sudo, os, debug),
                      os)
    /\ UNCHANGED <<debug, make_command, exceptRunner>>

RunnerNext ==
    \/ RnContinue
    \/ RnSetMake
    \/ RnAddMakeArgument
    \/ RnKdtRun
    \/ RnKdtRunStr
    \/ RnMake
    \/ RnMakeStr
    \/ RnMakePass
    \/ RnWrapper

(***************************************************************************)
(* KernelBuilder: the paths and the make command of a board                *)
(***************************************************************************)
BuildPath == <<"/build">>
\* lines 227-230
board_path(params) == BuildPath \o <<"/">> \o params["board_name"]
kernel_build_path(params) == board_path(params) \o <<"/kernel">>
install_modules_path(params) == board_path(params) \o <<"/install_modules">>
package_path(params) == board_path(params) \o <<"/package">>

\* lines 239-248: the make command KernelBuilder.__init__ sets
builder_make(params) ==
    IF is_x86(params)
    THEN set_make(params["arch"], kernel_build_path(params), install_modules_path(params),
                  <<"None">>)
    ELSE set_make(params["arch"], kernel_build_path(params), install_modules_path(params),
                  params["cc"])

\* the BoardConfigs of a board section that sets config_target, kernel_target,
\* kernel_file and any of the keys in opt
BoardConfigsWith(env_board, opt) ==
    { BoardConfigInit(
          [k \in {"HOME", "PATH"} |-> ValueOf(k)] @@ ("board" :> env_board),
          [n \in {Sect(RPI, ARM64), Sect(PC, X86_64)} |->
              [k \in SectionSetKeys \cup {"config_target", "kernel_target", "kernel_file"}
                     \cup D |-> ValueOf(k)]],
          <<Sect(RPI, ARM64), Sect(PC, X86_64)>>, KdtBoards, TRUE).params :
        D \in SUBSET opt }

(***************************************************************************)
(* kb cp <path>: KernelBuilder.__disk_copy, kdt_utils.disk_mount,          *)
(* disk_umount, KernelBuilder.__local_copy                                 *)
(***************************************************************************)
Version == <<"6.1.0-kdt">>
ArchPackage == <<"linux-devel-1-0-any.pkg.tar.zst">>
MountPoint == <<"/tmp/tmpdir">>
BootMountPoint == MountPoint \o <<"/boot">>
\* where the copy goes: the mount point, or the folder given
Folder == <<"/srv/rootfs">>
Disk(dest) == IF dest = "dev" THEN <<"/dev/sdX">> ELSE <<"disk.img">>

ConfigureFirst == <<"Configure the Kernel first">>
FailKernelRelease == <<"Fail to make kernelrelease">>
FailParseFdisk(img) == <<"Error! Fail to parse fdisk output from image ">> \o img
FailMountRoot(dest) == <<"Fail to mount root partition of ">> \o dest
BuildFirst == <<"Build the kernel first">>
NoRamfsFile == <<"Error! No ramfs file defined.">>
NoRamfsCommand == <<"Error! No ramfs update command configured.">>

\* disk_mount, lines 98-110: <<root_args, root_src, boot_args, boot_src>> of a disk of
\* nparts partitions; boot_src is <<"None">> when there is one partition
LoopArgs(n) == <<<<"-o">>, <<"loop,offset=", "start", n, ",sizelimit=", "sectors", n>>>>
\* root on the first partition and boot on the second
mount_sources_swapped(dest, nparts) ==
    IF dest = "dev"
    THEN IF nparts = 2
         THEN << << >>, Disk(dest) \o <<"1">>, << >>, Disk(dest) \o <<"2">> >>
         ELSE << << >>, Disk(dest) \o <<"1">>, << >>, <<"None">> >>
    ELSE IF nparts = 2
         THEN << LoopArgs("1"), Disk(dest), LoopArgs("2"), Disk(dest) >>
         ELSE << LoopArgs("1"), Disk(dest), << >>, <<"None">> >>
mount_sources(dest, nparts) ==
    IF dest = "dev"
    THEN IF nparts = 2
         THEN << << >>, Disk(dest) \o <<"2">>, << >>, Disk(dest) \o <<"1">> >>
         ELSE << << >>, Disk(dest) \o <<"1">>, << >>, <<"None">> >>
    ELSE IF nparts = 2
         THEN << LoopArgs("2"), Disk(dest), LoopArgs("1"), Disk(dest) >>
         ELSE << LoopArgs("1"), Disk(dest), << >>, <<"None">> >>

\* __transfer_modules, __transfer_kernel: the arguments of the copy
modules_args(params, target) ==
    << install_modules_path(params) \o <<"/lib/modules/">> \o Version,
       target \o <<"/lib/modules">> >>
kernel_args(params, target) ==
    << kernel_build_path(params) \o <<"/arch/">> \o params["arch"] \o <<"/boot/">>
           \o params["kernel_target"],
       target \o <<"/boot/">> \o params["kernel_file"] >>

\* next(walk(build_dts)): the folders of the device trees built
DtsFolders == << <<"broadcom">>, <<"overlays">> >>

\* __transfer_device_trees, lines 499-513: the argument lists of its calls of func
RECURSIVE folder_calls(_, _, _)
folder_calls(folders, build_dts, dtb_path) ==
    IF folders = << >> THEN << >>
    ELSE (IF Head(folders) # <<"overlays">>
          THEN << << build_dts \o <<"/">> \o Head(folders) \o <<"/">>,
                     dtb_path \o <<"/">> \o Head(folders) >> >>
          ELSE << >>)
         \o folder_calls(Tail(folders), build_dts, dtb_path)

device_tree_calls(params, target) ==
    LET build_dts == kernel_build_path(params) \o <<"/arch/">> \o params["arch"]
                         \o <<"/boot/dts">>
        dtb_path == target \o <<"/boot/">> \o params["dtb_path"]
    IN  (IF Len(params["vendor"]) # 0
         THEN << << build_dts \o <<"/">> \o params["vendor"] \o <<"/">>, dtb_path >> >>
         ELSE folder_calls(DtsFolders, build_dts, dtb_path))
        \o (IF Bool(params["overlay_path"])
            THEN << << build_dts \o <<"/overlays/">>,
                       target \o <<"/boot/">> \o params["overlay_path"] >> >>
            ELSE << >>)

\* func(...) called on each argument list in turn, the process ending at the first
\* call that ends it: [term, msg, argvs |-> the argument vectors launched]
RECURSIVE run_calls(_, _, _, _, _)
run_calls(cur, calls, sudo, oss, dbg) ==
    IF calls = << >> THEN [term |-> "return", msg |-> << >>, argvs |-> << >>]
    ELSE LET r == run_current_command_check(cur, Head(calls), sudo, Head(oss), dbg)
             launched == IF r.argv # << >> THEN <<r.argv>> ELSE << >>
         IN  IF r.term = "exit"
             THEN [term |-> "exit", msg |-> r.msg, argvs |-> launched]
             ELSE LET rest == run_calls(cur, Tail(calls), sudo, Tail(oss), dbg)
                  IN  [rest EXCEPT !.argvs = launched \o @]

Launched(r) == IF r.argv # << >> THEN <<r.argv>> ELSE << >>
ToDisk == dk_dest \in {"dev", "image"}
NetDests == {"net", "net_ramfs", "net_pack"}
Net == dk_dest \in NetDests
Ip == <<"10.0.0.2">>
\* line 570
NetTarget == <<"root@">> \o Ip
Target == IF ToDisk THEN MountPoint ELSE IF Net THEN NetTarget \o <<":">> ELSE Folder

DkExit(msg, step) ==
    /\ dk_pc' = "exit"
    /\ dk_msg' = msg
    /\ dk_failed' = step

\* __kernel_release (line 606)
DkKernelRelease ==
    /\ dk_pc = "release"
    /\ \E auto_conf \in BOOLEAN, os \in OsOutcomes :
         LET r == make_str(make_command, Words(<<"--no-print-directory", "kernelrelease">>),
                           <<FALSE, TRUE>>, FALSE, os, debug)
         IN  IF ~auto_conf
             THEN DkExit(ConfigureFirst, "release") /\ UNCHANGED dk_log
             ELSE /\ dk_log' = dk_log \o Launched(r)
                  /\ IF r.term = "exit" THEN DkExit(r.msg, "release")
                     ELSE IF ~r.ret.ok THEN DkExit(FailKernelRelease, "release")
                     ELSE /\ dk_pc' = IF ToDisk THEN "fdisk" ELSE "modules"
                          /\ UNCHANGED <<dk_msg, dk_failed>>
    /\ UNCHANGED <<dk_dest, dk_nparts, dk_mounted, dk_ret, current_command, exceptDisk>>

\* disk_mount, line 97: parse_fdisk. parts is what the listing holds: no row of a
\* first partition (0), one partition, or two.
DkParseFdisk ==
    /\ dk_pc = "fdisk"
    /\ \E parts \in 0..2, os \in OsOutcomes :
         LET r == kdt_run_str(<<<<"fdisk">>, <<"-o">>, <<"Device,Start,Sectors">>, <<"-l">>,
                                Disk(dk_dest)>>, <<FALSE, TRUE>>, FALSE, TRUE, os, debug)
         IN  /\ dk_log' = dk_log \o Launched(r)
             /\ IF r.term = "exit"
                THEN DkExit(r.msg, "fdisk") /\ UNCHANGED dk_nparts
                ELSE IF r.ret.ok /\ parts = 0
                THEN DkExit(FailParseFdisk(Disk(dk_dest)), "fdisk") /\ UNCHANGED dk_nparts
                ELSE /\ dk_nparts' = IF r.ret.ok THEN parts ELSE 0
                     /\ dk_pc' = "mount_root"
                     /\ UNCHANGED <<dk_msg, dk_failed>>
    /\ UNCHANGED <<dk_dest, dk_mounted, dk_ret, current_command, exceptDisk>>

\* disk_mount, line 113, and the return of line 119 when there is no boot partition
DkMountRoot ==
    /\ dk_pc = "mount_root"
    /\ current_command' = getattr("mount", current_command)
    /\ \E os \in OsOutcomes :
         LET src == mount_sources(dk_dest, dk_nparts)
             r == run_current_command_check(current_command', src[1] \o <<src[2], MountPoint>>,
                                            TRUE, os, debug)
             mounted == r.argv # << >> /\ r.term = "return"
         IN  /\ dk_log' = dk_log \o Launched(r)
             /\ dk_mounted' = IF mounted THEN dk_mounted \cup {"root"} ELSE dk_mounted
             /\ IF r.term = "exit"
                THEN DkExit(r.msg, "mount_root") /\ UNCHANGED dk_ret
                ELSE /\ dk_ret' = <<r.ret.ok, FALSE>>
                     /\ IF src[4] # <<"None">>
                        THEN dk_pc' = "mount_boot" /\ UNCHANGED <<dk_msg, dk_failed>>
                        ELSE IF ~r.ret.ok
                        THEN DkExit(FailMountRoot(Disk(dk_dest)), "mount_root")
                        ELSE dk_pc' = "modules" /\ UNCHANGED <<dk_msg, dk_failed>>
    /\ UNCHANGED <<dk_dest, dk_nparts, exceptDisk>>

\* disk_mount, lines 114-119, and __disk_copy, lines 610-611
DkMountBoot ==
    /\ dk_pc = "mount_boot"
    /\ \E os \in OsOutcomes, os_umount \in OsOutcomes :
         LET src == mount_sources(dk_dest, dk_nparts)
             cur_mount == getattr("mount", current_command)
             r == run_current_command_check(cur_mount, src[3] \o <<src[4], BootMountPoint>>,
                                            TRUE, os, debug)
             mounted == r.argv # << >> /\ r.term = "return"
             \* lines 116-118: boot_ret is false
             cur_umount == getattr("umount", cur_mount)
             u == run_current_command_check(cur_umount, <<src[2]>>, TRUE, os_umount, debug)
             unmounted == u.argv # << >> /\ u.term = "return"
         IN  IF r.term = "exit"
             THEN /\ DkExit(r.msg, "mount_boot")
                  /\ dk_log' = dk_log \o Launched(r)
                  /\ current_command' = cur_mount
                  /\ UNCHANGED <<dk_mounted, dk_ret>>
             ELSE IF r.ret.ok
             THEN /\ dk_log' = dk_log \o Launched(r)
                  /\ current_command' = cur_mount
                  /\ dk_mounted' = IF mounted THEN dk_mounted \cup {"boot"} ELSE dk_mounted
                  /\ dk_ret' = <<dk_ret[1], TRUE>>
                  /\ IF ~dk_ret[1] THEN DkExit(FailMountRoot(Disk(dk_dest)), "mount_root")
                     ELSE dk_pc' = "modules" /\ UNCHANGED <<dk_msg, dk_failed>>
             ELSE /\ dk_log' = dk_log \o Launched(r) \o Launched(u)
                  /\ current_command' = cur_umount
                  /\ dk_mounted' = IF unmounted THEN dk_mounted \ {"root"} ELSE dk_mounted
                  /\ dk_ret' = <<FALSE, FALSE>>
                  /\ IF u.term = "exit" THEN DkExit(u.msg, "mount_boot")
                     ELSE DkExit(FailMountRoot(Disk(dk_dest)), "mount_boot")
    /\ UNCHANGED <<dk_dest, dk_nparts, exceptDisk>>

\* one copy step of __local_copy: func is looked up, then called on each of calls
DkCopy(step, next, wrapper, calls) ==
    /\ current_command' = getattr(wrapper, current_command)
    /\ \E oss \in [1..Len(calls) -> OsOutcomes] :
         LET r == run_calls(current_command', calls, ToDisk, oss, debug)
         IN  /\ dk_log' = dk_log \o r.argvs
             /\ IF r.term = "exit" THEN DkExit(r.msg, step)
                ELSE dk_pc' = next /\ UNCHANGED <<dk_msg, dk_failed>>
    /\ UNCHANGED <<dk_dest, dk_nparts, dk_mounted, dk_ret, exceptDisk>>

\* __transfer_modules (lines 576, 595)
DkTransferModules ==
    /\ dk_pc = "modules"
    /\ DkCopy("modules", "kernel", IF Net THEN "net_rsync" ELSE "disk_rsync",
              <<modules_args(build_params, Target)>>)

\* __transfer_kernel (lines 577, 596)
DkTransferKernel ==
    /\ dk_pc = "kernel"
    /\ DkCopy("kernel", "dtbs", IF Net THEN "scp" ELSE "disk_rsync",
              <<kernel_args(build_params, Target)>>)

\* what follows the device trees: sync (line 598), the ramfs update (line 579) or the
\* end of the network copy
AfterTrees == IF ~Net THEN "sync" ELSE IF dk_dest = "net_ramfs" THEN "ramfs" ELSE "done"
TreesWrapper == IF Net THEN "net_rsync" ELSE "disk_rsync"

\* __transfer_device_trees (lines 578, 597)
DkTransferDeviceTrees ==
    \/ /\ dk_pc = "dtbs"
       /\ ~Bool(build_params["dtb_path"])
       /\ dk_pc' = AfterTrees
       /\ current_command' = getattr(TreesWrapper, current_command)
       /\ UNCHANGED <<dk_dest, dk_nparts, dk_mounted, dk_log, dk_ret, dk_failed, dk_msg,
                      exceptDisk>>
    \/ /\ dk_pc = "dtbs"
       /\ Bool(build_params["dtb_path"])
       /\ current_command' = getattr(TreesWrapper, current_command)
       /\ DkExit(BuildFirst, "dtbs")
       /\ UNCHANGED <<dk_dest, dk_nparts, dk_mounted, dk_log, dk_ret, exceptDisk>>
    \/ /\ dk_pc = "dtbs"
       /\ Bool(build_params["dtb_path"])
       /\ DkCopy("dtbs", AfterTrees, TreesWrapper, device_tree_calls(build_params, Target))

\* __local_copy, line 598, and the return to __disk_copy
DkSync ==
    /\ dk_pc = "sync"
    /\ \E os \in OsOutcomes :
         LET r == kdt_run(Words(<<"sync">>), <<FALSE, TRUE>>, FALSE, TRUE, os, debug)
         IN  /\ dk_log' = dk_log \o Launched(r)
             /\ dk_failed' = IF r.ret.ok THEN dk_failed ELSE "sync"
             /\ dk_pc' = IF ~ToDisk THEN "done"
                         ELSE IF dk_ret[2] THEN "umount_boot" ELSE "umount_root"
    /\ UNCHANGED <<dk_dest, dk_nparts, dk_mounted, dk_ret, dk_msg, current_command,
                   exceptDisk>>

\* disk_umount: one umount of mount point mp, which holds partition part
DkUmount(step, next, mp, part) ==
    /\ current_command' = getattr("umount", current_command)
    /\ \E os \in OsOutcomes :
         LET r == run_current_command_check(current_command', <<mp>>, TRUE, os, debug)
             unmounted == r.argv # << >> /\ r.term = "return"
         IN  /\ dk_log' = dk_log \o Launched(r)
             /\ dk_mounted' = IF unmounted THEN dk_mounted \ {part} ELSE dk_mounted
             /\ IF r.term = "exit" THEN DkExit(r.msg, step)
                ELSE dk_pc' = next /\ UNCHANGED <<dk_msg, dk_failed>>
    /\ UNCHANGED <<dk_dest, dk_nparts, dk_ret, exceptDisk>>

\* disk_umount, lines 130-131
DkUmountBoot ==
    /\ dk_pc = "umount_boot"
    /\ DkUmount("umount_boot", "umount_root", BootMountPoint, "boot")

\* disk_umount, line 132
DkUmountRoot ==
    /\ dk_pc = "umount_root"
    /\ DkUmount("umount_root", "done", MountPoint, "root")

\* __network_copy, lines 567-568: rsync and the board are probed, the results dropped
DkNetProbe ==
    /\ dk_pc = "probe"
    /\ \E oss \in [1..2 -> OsOutcomes] :
         LET rsync == kdt_run(Words(<<"rsync", "--version">>), <<FALSE, TRUE>>, FALSE, TRUE,
                              oss[1], debug)
             ping == kdt_run(Words(<<"ping", "-c", "1">>) \o <<Ip>>, <<FALSE, TRUE>>, FALSE,
                             TRUE, oss[2], debug)
         IN  dk_log' = dk_log \o Launched(rsync) \o Launched(ping)
    /\ dk_pc' = IF dk_dest = "net_pack" THEN "package" ELSE "release"
    /\ UNCHANGED <<dk_dest, dk_nparts, dk_mounted, dk_ret, dk_failed, dk_msg,
                   current_command, exceptDisk>>

\* __network_copy_package: the package is copied with scp and installed over ssh
DkNetPackage ==
    /\ dk_pc = "package"
    /\ \E os_scp \in OsOutcomes, os_ssh \in OsOutcomes :
         LET cur_scp == getattr("scp", current_command)
             c == run_current_command_check(
                      cur_scp, <<package_path(build_params) \o <<"/">> \o ArchPackage,
                                 NetTarget \o <<":/root/">>>>, FALSE, os_scp, debug)
             cur_ssh == getattr("ssh", cur_scp)
             i == run_current_command_check(
                      cur_ssh, <<NetTarget>> \o Words(<<"pacman", "-U", "--noconfirm">>)
                                   \o <<ArchPackage>>, FALSE, os_ssh, debug)
         IN  IF c.term = "exit"
             THEN /\ current_command' = cur_scp
                  /\ dk_log' = dk_log \o Launched(c)
                  /\ DkExit(c.msg, "package")
             ELSE /\ current_command' = cur_ssh
                  /\ dk_log' = dk_log \o Launched(c) \o Launched(i)
                  /\ IF i.term = "exit" THEN DkExit(i.msg, "package")
                     ELSE dk_pc' = "done" /\ UNCHANGED <<dk_msg, dk_failed>>
    /\ UNCHANGED <<dk_dest, dk_nparts, dk_mounted, dk_ret, exceptDisk>>

\* str.replace(old, new) where old is one token
replace(text, old, new) ==
    IF text = << >> THEN << >>
    ELSE LET Piece(t) == IF t = old THEN new ELSE <<t>>
             RECURSIVE Pieces(_)
             Pieces(rest) == IF rest = << >> THEN << >>
                             ELSE Piece(Head(rest)) \o Pieces(Tail(rest))
         IN  Pieces(text)
\* str.split(" "): the words between the blanks
RECURSIVE split_blank(_, _)
split_blank(text, word) ==
    IF text = << >> THEN <<word>>
    ELSE IF Head(text) = " " THEN <<word>> \o split_blank(Tail(text), << >>)
    ELSE split_blank(Tail(text), Append(word, Head(text)))

\* __update_ramfs, lines 536-541: the arguments of ssh
update_ramfs(params, target, version, output_file) ==
    LET c1 == replace(params["update_ramfs"], "$version", version)
        c2 == replace(c1, "$ramfs_file", <<"/boot/">> \o output_file)
    IN  <<target>> \o split_blank(c2, << >>)

\* __network_copy, lines 579-583, and __update_ramfs
DkUpdateRamfs ==
    /\ dk_pc = "ramfs"
    /\ IF build_params["ramfs_file"] = << >>
       THEN DkExit(NoRamfsFile, "ramfs") /\ UNCHANGED <<dk_log, current_command>>
       ELSE IF ~Bool(build_params["update_ramfs"])
       THEN DkExit(NoRamfsCommand, "ramfs") /\ UNCHANGED <<dk_log, current_command>>
       ELSE \E os \in OsOutcomes :
              LET r == run_current_command_check(
                           current_command',
                           update_ramfs(build_params, NetTarget, Version,
                                        build_params["ramfs_file"]), FALSE, os, debug)
              IN  /\ current_command' = getattr("ssh", current_command)
                  /\ dk_log' = dk_log \o Launched(r)
                  /\ IF r.term = "exit" THEN DkExit(r.msg, "ramfs")
                     ELSE dk_pc' = "done" /\ UNCHANGED <<dk_msg, dk_failed>>
    /\ UNCHANGED <<dk_dest, dk_nparts, dk_mounted, dk_ret, exceptDisk>>

DiskNext ==
    \/ DkNetProbe
    \/ DkNetPackage
    \/ DkUpdateRamfs
    \/ DkKernelRelease
    \/ DkParseFdisk
    \/ DkMountRoot
    \/ DkMountBoot
    \/ DkTransferModules
    \/ DkTransferKernel
    \/ DkTransferDeviceTrees
    \/ DkSync
    \/ DkUmountBoot
    \/ DkUmountRoot

\* kb cp <path> [-d] and kb scp <ip> [--ramfs] [-p] [-d] on a board whose section may
\* set dtb_path, vendor, overlay_path
DiskInit ==
    /\ dk_dest \in {"dev", "image", "folder"} \cup NetDests
    /\ dk_pc = IF Net THEN "probe" ELSE "release"
    /\ dk_nparts = 0
    /\ dk_mounted = {}
    /\ dk_log = << >>
    /\ dk_ret = <<FALSE, FALSE>>
    /\ dk_failed = ""
    /\ dk_msg = << >>

\* a KernelBuilder constructed for one of the boards in params_set
BuilderInit(params_set) ==
    /\ bc_pc = "done"
    /\ bash_env = << >>
    /\ boards_config = << >>
    /\ sections = << >>
    /\ path_exists = FALSE
    /\ build_params \in params_set
    /\ bc_msg = << >>
    /\ debug \in BOOLEAN
    /\ make_command = builder_make(build_params)
    /\ current_command = << >>

(***************************************************************************)
(* kb check N: KernelBuilder.__build_check_commits                         *)
(***************************************************************************)
MaxPatches == 2

\* str.split('\n'): the lines of a text, a text being a sequence of tokens
RECURSIVE Split(_)
Split(text) ==
    IF text = << >> THEN << << >> >>
    ELSE LET rest == Split(Tail(text))
         IN  IF Head(text) = "\n" THEN << << >> >> \o rest
             ELSE << <<Head(text)>> \o Head(rest) >> \o Tail(rest)

\* list.reverse()
RECURSIVE Reverse(_)
Reverse(list) == IF list = << >> THEN << >> ELSE Reverse(Tail(list)) \o <<Head(list)>>

\* lines 653-657: the name after the two characters "* " of the last starred line
RECURSIVE current_branch(_, _)
current_branch(lines, branch_name) ==
    IF lines = << >> THEN branch_name
    ELSE current_branch(Tail(lines),
                        IF "* " \in Range(Head(lines)) THEN Tail(Head(lines))
                        ELSE branch_name)

\* patch[:12]: the abbreviated hash that starts a line of git log --oneline
Hash12(patch) == IF patch = << >> THEN << >> ELSE <<Head(patch)>>

\* what the repository answers: two branches, the second one current, and one line
\* per commit asked for, the newest first
Branch == <<"topic">>
GitBranchOut == <<"  ", "master", "\n", "* ">> \o Branch
RECURSIVE GitLogOut(_)
GitLogOut(count) ==
    IF count = 0 THEN << >>
    ELSE <<ToString(count - 1), " subject">>
         \o (IF count > 1 THEN <<"\n">> \o GitLogOut(count - 1) ELSE << >>)

Warning == <<"drivers/x.c:1: ", "warning:", " unused variable">>
Total == <<"WARNING: line length", "\n", "total:", " 0 errors, 1 warnings", "\n", "x.patch has style problems">>
NoTotal == <<"Can't open x.patch">>
\* the outcome of a launched command whose stdout is one of outs, stderr one of errs
OsOf(outs, errs) == [status : OsStatus, out : outs, err : errs]

CantBuild(patch) == <<"Can't build patch ">> \o patch
NoProcConfig == <<"Error!! ", "/proc/config.gz", " does not exist!">>

\* the kdt_run_str of lines 648-649
check_run_str(cmd, check, os, dbg) == kdt_run_str(cmd, <<FALSE, FALSE>>, FALSE, check, os, dbg)

\* __kernel_config(silent=True) of a KernelBuilder that keeps no Eclipse links
\* (__eclipse_links returns at once; its commands are run by kdt_run and make, which
\* report no failure). oss are the outcomes of the two commands it may launch.
\* The result is that of the last call made, with log: the commands launched, each
\* with the way it ended, and dotconfig: what was done to <build>/.config ("kept",
\* "copied", "truncated" by open(.., 'w'), "unzipped").
kernel_config(params, mk, gz_exists, oss, dbg) ==
    LET to_use == params["config_to_use"]
        dotconfig == kernel_build_path(params) \o <<"/.config">>
        Ran(r, os) == IF r.argv = << >> THEN << >>
                      ELSE <<[argv |-> r.argv, status |-> os.status]>>
        Configured(r, log, done) == [log |-> log, dotconfig |-> done] @@ r
    IN  CASE to_use = <<"config_target">> ->
               LET m == make(mk, <<params["config_target"]>>, oss[1], dbg)
               IN  Configured(m, Ran(m, oss[1]), "kept")
          [] to_use = <<"config_file">> ->
               LET cp == kdt_run(<<<<"cp">>, params["config_file"], dotconfig>>,
                                 <<TRUE, FALSE>>, FALSE, FALSE, oss[1], dbg)
                   m == make(mk, Words(<<"olddefconfig">>), oss[2], dbg)
               IN  Configured(m, Ran(cp, oss[1]) \o Ran(m, oss[2]),
                              IF cp.argv # << >> /\ cp.ret.ok THEN "copied" ELSE "kept")
          [] to_use = <<"config_gz">> ->
               IF ~gz_exists THEN Configured(Exited(NoProcConfig, << >>, << >>), << >>, "kept")
               ELSE LET z == kdt_run_str(Words(<<"zcat", "/proc/config.gz">>), <<FALSE, TRUE>>,
                                         FALSE, FALSE, oss[1], dbg)
                        m == make(mk, Words(<<"olddefconfig">>), oss[2], dbg)
                    IN  IF z.term = "exit" THEN Configured(z, Ran(z, oss[1]), "truncated")
                        ELSE IF ~z.ret.ok
                        THEN Configured(Returned(RetNone, << >>, z.argv), Ran(z, oss[1]),
                                        "truncated")
                        ELSE Configured(m, Ran(z, oss[1]) \o Ran(m, oss[2]), "unzipped")

\* sys.exit(message) and an uncaught exception end the process with status 1
CkExit(msg) ==
    /\ ck_pc' = "exit"
    /\ ck_status' = 1
    /\ ck_msg' = msg
CkCrash(exception) ==
    /\ ck_pc' = "crash"
    /\ ck_status' = 1
    /\ ck_msg' = exception
CkGoOn(pc) ==
    /\ ck_pc' = pc
    /\ UNCHANGED <<ck_status, ck_msg>>

\* lines 651-657
CkGitBranch ==
    /\ ck_pc = "branch"
    /\ \E os \in OsOf({GitBranchOut}, {Stderr}) :
         LET r == check_run_str(Words(<<"git", "branch">>), TRUE, os, debug)
         IN  IF r.term = "exit" THEN CkExit(r.msg) /\ UNCHANGED ck_branch_name
             ELSE /\ ck_branch_name' = current_branch(Split(r.ret.out), << >>)
                  /\ CkGoOn("log")
    /\ UNCHANGED <<ck_n, ck_patches, ck_i, ck_head, ck_has_warnings, ck_build, ck_report,
                   make_command, exceptCheck>>

\* lines 659-663
CkGitLog ==
    /\ ck_pc = "log"
    /\ \E os \in OsOf({GitLogOut(ck_n + 1)}, {Stderr}) :
         LET r == check_run_str(<<<<"git">>, <<"log">>, <<"--oneline">>,
                                  <<"-", ToString(ck_n + 1)>>>>, TRUE, os, debug)
         IN  IF r.term = "exit" THEN CkExit(r.msg) /\ UNCHANGED ck_patches
             ELSE /\ ck_patches' = Reverse(Split(r.ret.out))
                  /\ CkGoOn("checkout")
    /\ UNCHANGED <<ck_n, ck_i, ck_head, ck_branch_name, ck_has_warnings, ck_build,
                   ck_report, make_command, exceptCheck>>

\* lines 667-668 (the base, ck_i = 0) and line 675
CkCheckout ==
    /\ ck_pc = "checkout"
    /\ \E os \in OsOutcomes :
         LET hash == Hash12(ck_patches[ck_i + 1])
             r == check_run_str(<<<<"git">>, <<"checkout">>, hash>>, TRUE, os, debug)
         IN  IF r.term = "exit" THEN CkExit(r.msg) /\ UNCHANGED ck_head
             ELSE /\ ck_head' = IF r.argv # << >> THEN hash ELSE ck_head
                  /\ CkGoOn("config")
    /\ UNCHANGED <<ck_n, ck_patches, ck_i, ck_branch_name, ck_has_warnings, ck_build,
                   ck_report, make_command, exceptCheck>>

\* lines 669 and 676
CkConfig ==
    /\ ck_pc = "config"
    /\ \E gz_exists \in BOOLEAN, oss \in [1..2 -> OsOutcomes] :
         LET r == kernel_config(build_params, make_command, gz_exists, oss, debug)
         IN  IF r.term = "exit" THEN CkExit(r.msg) ELSE CkGoOn("build")
    /\ UNCHANGED <<ck_n, ck_patches, ck_i, ck_head, ck_branch_name, ck_has_warnings,
                   ck_build, ck_report, make_command, exceptCheck>>

\* __kernel_make_build(warn=1) of lines 670-673 (the base: check=True) and of lines
\* 677-681 (check=False)
CkBuild ==
    /\ ck_pc = "build"
    /\ make_command' = add_make_argument(make_command, <<"W=", "1">>)
    /\ \E os \in OsOf({Stdout}, {Stderr, Warning}) :
         LET r == make_str(make_command', build_target(build_params), <<TRUE, FALSE>>,
                           ck_i = 0, os, debug)
             patch == ck_patches[ck_i + 1]
         IN  IF r.term = "exit"
             THEN CkExit(r.msg) /\ UNCHANGED <<ck_build, ck_report, ck_i>>
             ELSE /\ ck_build' = <<r.ret.ok, "warning:" \in Range(r.ret.err)>>
                  /\ IF ck_i = 0
                     THEN IF ~r.ret.ok THEN CkExit(CantBuild(patch)) /\ UNCHANGED <<ck_report, ck_i>>
                          ELSE IF Len(ck_patches) > 1
                          THEN CkGoOn("checkout") /\ ck_i' = 1 /\ UNCHANGED ck_report
                          ELSE CkGoOn("restore") /\ UNCHANGED <<ck_report, ck_i>>
                     ELSE IF ~r.ret.ok
                          THEN /\ ck_report' = Append(ck_report, "nobuild")
                               /\ CkGoOn("restore")
                               /\ UNCHANGED ck_i
                          ELSE CkGoOn("format") /\ UNCHANGED <<ck_report, ck_i>>
    /\ UNCHANGED <<ck_n, ck_patches, ck_head, ck_branch_name, ck_has_warnings, exceptCheck>>

\* lines 682-683: remove_change_id rewrites the patch file and nothing else
CkFormatPatch ==
    /\ ck_pc = "format"
    /\ \E os \in OsOf({<<"/tmp/0001-subject.patch">>}, {Stderr}) :
         LET r == check_run_str(Words(<<"git", "format-patch", "-1", "-o", "/tmp/">>), TRUE,
                                os, debug)
         IN  IF r.term = "exit" THEN CkExit(r.msg) ELSE CkGoOn("checkpatch")
    /\ UNCHANGED <<ck_n, ck_patches, ck_i, ck_head, ck_branch_name, ck_has_warnings,
                   ck_build, ck_report, make_command, exceptCheck>>

\* lines 684-697, and the step of the loop
CkCheckpatch ==
    /\ ck_pc = "checkpatch"
    /\ \E os \in OsOf({Total, NoTotal}, {Stderr}) :
         LET r == check_run_str(<<<<"./scripts/checkpatch.pl">>, <<"/tmp/0001-subject.patch">>>>,
                                FALSE, os, debug)
             ret == r.ret.ok
             bad == ~ret \/ ck_build[2]
             last == ck_i + 1 = Len(ck_patches)
         IN  IF r.term = "exit"
             THEN CkExit(r.msg) /\ UNCHANGED <<ck_has_warnings, ck_report, ck_i>>
             ELSE IF ~ret /\ "total:" \notin Range(r.ret.out)
             THEN /\ CkCrash(<<"ValueError: substring not found">>)
                  /\ UNCHANGED <<ck_has_warnings, ck_report, ck_i>>
             ELSE /\ ck_has_warnings' = IF bad THEN 1 ELSE ck_has_warnings
                  /\ ck_report' = Append(ck_report, IF bad THEN "bad" ELSE "good")
                  /\ ck_i' = IF last THEN ck_i ELSE ck_i + 1
                  /\ CkGoOn(IF last THEN "restore" ELSE "checkout")
    /\ UNCHANGED <<ck_n, ck_patches, ck_head, ck_branch_name, ck_build, make_command,
                   exceptCheck>>

\* lines 699-701
CkRestore ==
    /\ ck_pc = "restore"
    /\ \E os \in OsOutcomes :
         LET r == check_run_str(<<<<"git">>, <<"checkout">>, ck_branch_name>>, TRUE, os, debug)
         IN  IF Bool(ck_branch_name) /\ r.term = "exit"
             THEN CkExit(r.msg) /\ UNCHANGED ck_head
             ELSE /\ ck_head' = IF Bool(ck_branch_name) /\ r.argv # << >>
                                THEN ck_branch_name ELSE ck_head
                  /\ ck_pc' = "exit"
                  /\ ck_status' = ck_has_warnings
                  /\ ck_msg' = << >>
    /\ UNCHANGED <<ck_n, ck_patches, ck_i, ck_branch_name, ck_has_warnings, ck_build,
                   ck_report, make_command, exceptCheck>>

CheckNext ==
    \/ CkGitBranch
    \/ CkGitLog
    \/ CkCheckout
    \/ CkConfig
    \/ CkBuild
    \/ CkFormatPatch
    \/ CkCheckpatch
    \/ CkRestore

\* kb check N [-d], started on branch Branch of a history of more than N commits
CheckInit ==
    /\ ck_pc = "branch"
    /\ ck_n \in 1..MaxPatches
    /\ ck_patches = << >>
    /\ ck_i = 0
    /\ ck_head = Branch
    /\ ck_branch_name = << >>
    /\ ck_has_warnings = 0
    /\ ck_build = <<FALSE, FALSE>>
    /\ ck_report = << >>
    /\ ck_status = -1
    /\ ck_msg = << >>

\* the BoardConfigs of a board section that sets one config source
BoardConfigsOf(env_board, sources) ==
    { BoardConfigInit(
          [k \in {"HOME", "PATH"} |-> ValueOf(k)] @@ ("board" :> env_board),
          [n \in {Sect(RPI, ARM64), Sect(PC, X86_64)} |->
              [k \in SectionSetKeys \cup {src, "kernel_target", "kernel_file"}
                  |-> ValueOf(k)]],
          <<Sect(RPI, ARM64), Sect(PC, X86_64)>>, KdtBoards, TRUE).params :
        src \in sources }

(***************************************************************************)
(* kb config: KernelBuilder.__kernel_config on its own                     *)
(***************************************************************************)
KernelConfig ==
    /\ cf_pc = "ready"
    /\ \E oss \in [1..2 -> OsOutcomes] :
         LET r == kernel_config(build_params, make_command, cf_proc_gz, oss, debug)
         IN  /\ cf_pc' = IF r.term = "exit" THEN "exit" ELSE "returned"
             /\ cf_log' = r.log
             /\ cf_dotconfig' = IF r.dotconfig = "kept" THEN cf_dotconfig ELSE r.dotconfig
             /\ cf_msg' = r.msg
    /\ UNCHANGED <<cf_proc_gz, exceptConfig>>

ConfigNext == KernelConfig

\* a first configure (no .config in the build tree) or a later one
ConfigInit ==
    /\ cf_pc = "ready"
    /\ cf_proc_gz \in BOOLEAN
    /\ cf_log = << >>
    /\ cf_dotconfig \in {"absent", "old"}
    /\ cf_msg = << >>

(***************************************************************************)
(* gip: get_ip.get_ips, read_etc_hosts, match_host_ip, list_net_devices    *)
(***************************************************************************)
MaxFileLen == 3
MaxRuns == 2

Marker == "#gip added"

\* file.readlines(): the lines of a text, each with its terminator
RECURSIVE readlines(_)
readlines(text) ==
    IF text = << >> THEN << >>
    ELSE IF "\n" \notin Range(text) THEN <<text>>
    ELSE LET i == IndexOf(text, "\n")
         IN  <<SubSeq(text, 1, i)>> \o readlines(SubSeq(text, i + 1, Len(text)))

\* the loop of read_etc_hosts over the lines read
RECURSIVE keep_unmarked(_)
keep_unmarked(lines) ==
    IF lines = << >> THEN << >>
    ELSE (IF Marker \notin Range(Head(lines)) THEN Head(lines) ELSE << >>)
         \o keep_unmarked(Tail(lines))

\* read_etc_hosts, on the content of /etc/hosts
read_etc_hosts_unfiltered(file) == file
read_etc_hosts(file) == keep_unmarked(readlines(file))

\* the loop of list_net_devices over the rows of one arp-scan: net_devs[mac] = ip_addr
RECURSIVE add_rows(_, _)
add_rows(net_devs, rows) ==
    IF rows = << >> THEN net_devs
    ELSE add_rows(Put(net_devs, Head(rows)[2], Head(rows)[1]), Tail(rows))

\* list_net_devices: scan holds, for each range that is up, the rows arp-scan printed,
\* oss the outcome of each arp-scan. A scan that prints nothing gives one empty row,
\* which has no tab to split at.
RECURSIVE list_net_devices(_, _, _)
list_net_devices(net_devs, scan, oss) ==
    IF scan = << >> THEN [term |-> "return", msg |-> << >>, net_devs |-> net_devs]
    ELSE LET r == kdt_run_str(<<<<"sudo">>, <<"arp-scan">>, <<"-qxr">>, <<"4">>, <<"ip_range">>>>,
                              <<FALSE, TRUE>>, FALSE, TRUE, Head(oss), FALSE)
         IN  IF r.term = "exit" THEN [term |-> "exit", msg |-> r.msg, net_devs |-> net_devs]
             ELSE IF Head(scan) = << >>
             THEN [term |-> "crash", msg |-> <<"ValueError: not enough values to unpack">>,
                   net_devs |-> net_devs]
             ELSE list_net_devices(add_rows(net_devs, Head(scan)), Tail(scan), Tail(oss))

\* the loop of match_host_ip: the <<hostname, address>> pairs, in the order of the
\* hostnames of the section
RECURSIVE match_hosts(_, _)
match_hosts(items, net_devices) ==
    IF items = << >> THEN << >>
    ELSE (IF Head(items)[2] \in DOMAIN net_devices
          THEN << <<Head(items)[1], net_devices[Head(items)[2]]>> >>
          ELSE << >>)
         \o match_hosts(Tail(items), net_devices)

HostListEmpty == <<"Error! Host / MAC list empty.">>

\* match_host_ip; ip_os is the outcome of the ip command of get_ip_ranges
match_host_ip(section, scan, ip_os, oss) ==
    LET ranges == kdt_run_str(Words(<<"ip", "-f", "inet", "addr", "show", "scope", "global">>),
                              <<FALSE, TRUE>>, FALSE, TRUE, ip_os, FALSE)
        devs == list_net_devices(<< >>, scan, oss)
    IN  IF ~section.present
        THEN [term |-> "exit", msg |-> HostListEmpty, host_ip |-> << >>]
        ELSE IF ranges.term = "exit"
        THEN [term |-> "exit", msg |-> ranges.msg, host_ip |-> << >>]
        ELSE IF devs.term # "return"
        THEN [term |-> devs.term, msg |-> devs.msg, host_ip |-> << >>]
        ELSE [term |-> "return", msg |-> << >>,
              host_ip |-> match_hosts(section.items, devs.net_devs)]

\* lines 91-92: etc_hosts[-2:] != "\n\n"
pad(etc) ==
    IF Len(etc) >= 2 /\ etc[Len(etc)] = "\n" /\ etc[Len(etc) - 1] = "\n" THEN etc
    ELSE etc \o <<"\n">>

\* lines 93-96
RECURSIVE add_hosts(_, _)
add_hosts(etc, host_ip) ==
    IF host_ip = << >> THEN etc
    ELSE add_hosts(etc \o <<Head(host_ip)[2], " ", Head(host_ip)[1], " ", Marker, "\n">>,
                   Tail(host_ip))

\* get_ips: [term, msg, file |-> the content of /etc/hosts afterwards]
get_ips(file, section, scan, ip_os, oss, cp_os) ==
    LET etc == pad(read_etc_hosts(file))
        m == match_host_ip(section, scan, ip_os, oss)
        cp == kdt_run_str(Words(<<"sudo", "cp", "tmp.name", "/etc/hosts">>), <<FALSE, TRUE>>,
                          FALSE, TRUE, cp_os, FALSE)
    IN  IF m.term # "return" THEN [term |-> m.term, msg |-> m.msg, file |-> file]
        ELSE IF cp.term = "exit" THEN [term |-> "exit", msg |-> cp.msg, file |-> file]
        ELSE [term |-> "done", msg |-> << >>, file |-> add_hosts(etc, m.host_ip)]

\* what arp-scan may print for the ranges that are up: no range, one range with
\* nothing on it, and ranges where an address is seen again
Row1 == <<"10.0.0.1", "aa:01">>
Row2 == <<"10.0.0.2", "aa:02">>
Row3 == <<"10.0.1.3", "aa:01">>
Scans ==
    { << >>, << << >> >>, << <<Row1, Row2>> >>, << <<Row1>>, <<Row3>> >>, << <<Row2>> >> }

\* the [get_ip] section of ~/.kdt: absent, or hostname = mac options
HostTables ==
    { << >>, << <<"pi", "aa:01">> >>, << <<"pi", "aa:01">>, <<"nas", "aa:02">> >>,
      << <<"nas", "aa:02">>, <<"pi", "aa:01">> >>, << <<"pi", "aa:01">>, <<"pi2", "aa:01">> >> }
HostSections ==
    {[present |-> FALSE, items |-> << >>]} \cup {[present |-> TRUE, items |-> t] : t \in HostTables}

\* the contents of /etc/hosts: texts, line ends and marked lines
RECURSIVE Texts(_)
Texts(n) ==
    IF n = 0 THEN {<< >>}
    ELSE Texts(n - 1) \cup {Append(t, c) : t \in {u \in Texts(n - 1) : Len(u) = n - 1},
                                           c \in {"127.0.0.1 localhost", "\n", Marker}}

\* the commands a run launches, and the outcome of command when the one that fails,
\* if any, is failing and fails as how (of the arp-scans it is the first)
GipCommands == {"ip", "arp-scan", "cp"}
GipFailures == {<<"none", "zero">>} \cup (GipCommands \X (OsStatus \ {"zero"}))
OsAt(command, failing, how) ==
    [status |-> IF command = failing THEN how ELSE "zero", out |-> Stdout, err |-> Stderr]

\* one run of gip. A run that ends before it writes leaves /etc/hosts as it was: the
\* runs after it are the runs from the state before it.
GetIps ==
    /\ hs_pc \in {"ready", "done"}
    /\ hs_runs < MaxRuns
    /\ \E scan \in Scans, f \in GipFailures :
         LET r == get_ips(etc_hosts, host_mac_list, scan, OsAt("ip", f[1], f[2]),
                          <<OsAt("arp-scan", f[1], f[2]), OsAt("", f[1], f[2])>>,
                          OsAt("cp", f[1], f[2]))
         IN  /\ hs_pc' = r.term
             /\ hs_msg' = r.msg
             /\ etc_hosts' = r.file
             /\ IF r.term = "done"
                THEN /\ hs_runs' = hs_runs + 1
                     /\ hs_scan' = scan
                     /\ hs_prev_scan' = hs_scan
                     /\ hs_prev_hosts' = etc_hosts
                ELSE UNCHANGED <<hs_runs, hs_scan, hs_prev_scan, hs_prev_hosts>>
    /\ UNCHANGED <<host_mac_list, exceptHosts>>

HostsNext == GetIps

HostsInit ==
    /\ hs_pc = "ready"
    /\ etc_hosts \in Texts(MaxFileLen)
    /\ host_mac_list \in HostSections
    /\ hs_scan = << >>
    /\ hs_prev_hosts = << >>
    /\ hs_prev_scan = << >>
    /\ hs_runs = 0
    /\ hs_msg = << >>

(***************************************************************************)
(* git_format_patch.remove_change_id                                       *)
(***************************************************************************)
MaxPatchLen == 4
MaxPatchRuns == 2

ChangeId == "Change-Id:"

\* open(patch_file, "r"): the text mode reads "\r\n" and "\r" as "\n"
RECURSIVE universal_newlines(_)
universal_newlines(text) ==
    IF text = << >> THEN << >>
    ELSE IF Head(text) = "\r"
    THEN <<"\n">> \o universal_newlines(IF Len(text) > 1 /\ text[2] = "\n"
                                        THEN Tail(Tail(text)) ELSE Tail(text))
    ELSE <<Head(text)>> \o universal_newlines(Tail(text))

\* lines 33-36: the lines written back
RECURSIVE write_without_change_id(_)
write_without_change_id(patch_lines) ==
    IF patch_lines = << >> THEN << >>
    ELSE (IF Head(Head(patch_lines)) # ChangeId THEN Head(patch_lines) ELSE << >>)
         \o write_without_change_id(Tail(patch_lines))

\* remove_change_id, on the file at patch_file
remove_change_id(file) ==
    IF ~file.exists THEN file
    ELSE [exists |-> TRUE,
          text |-> write_without_change_id(readlines(universal_newlines(file.text)))]

\* the patch files: absent, or a text of Change-Id: marks, other text and line ends
RECURSIVE PatchTexts(_)
PatchTexts(n) ==
    IF n = 0 THEN {<< >>}
    ELSE PatchTexts(n - 1)
         \cup {Append(t, c) : t \in {u \in PatchTexts(n - 1) : Len(u) = n - 1},
                              c \in {ChangeId, "Signed-off-by: a", "\n", "\r"}}

RemoveChangeId ==
    /\ pf_pc \in {"ready", "done"}
    /\ pf_runs < MaxPatchRuns
    /\ pf_pc' = "done"
    /\ pf_prev' = pf_file
    /\ pf_file' = remove_change_id(pf_file)
    /\ pf_runs' = pf_runs + 1
    /\ UNCHANGED exceptPatch

PatchNext == RemoveChangeId

PatchInit ==
    /\ pf_pc = "ready"
    /\ pf_file \in {NoFile} \cup {[exists |-> TRUE, text |-> t] : t \in PatchTexts(MaxPatchLen)}
    /\ pf_prev = NoFile
    /\ pf_runs = 0

(***************************************************************************)
(* kdt_utils.parse_fdisk                                                   *)
(***************************************************************************)
\* the disk listed, and the partition numbers a listing may hold
Img == <<"/dev/sdX">>
PartitionNumbers == {1, 2, 3, 10, 20}

\* str(n), one token for each digit
RECURSIVE Digits(_)
Digits(n) == IF n < 10 THEN <<ToString(n)>> ELSE Digits(n \div 10) \o <<ToString(n % 10)>>

\* sub in text, on token strings
IsInfix(sub, text) ==
    \E n \in 0..(Len(text) - Len(sub)) : SubSeq(text, n + 1, n + Len(sub)) = sub

\* the lines of fdisk -o Device,Start,Sectors -l: the Units: line with the bytes of
\* a sector, and one row for each partition
UnitsLine(bytes) == [kind |-> "units", unit |-> bytes]
Row(number, start, sectors) ==
    [kind |-> "row", device |-> Img \o Digits(number), start |-> start, sectors |-> sectors]

\* lines 65-77: one turn of the loop; p holds unit, name1, start1, sectors1, name2,
\* start2, sectors2
parse_line(img, p, line) ==
    LET p0 == IF line.kind = "units" THEN [p EXCEPT !.unit = line.unit] ELSE p
        p1 == IF line.kind = "row" /\ IsInfix(img \o <<"1">>, line.device)
              THEN [p0 EXCEPT !.name1 = line.device,
                              !.start1 = line.start * p0.unit,
                              !.sectors1 = line.sectors * p0.unit]
              ELSE p0
    IN  IF line.kind = "row" /\ IsInfix(img \o <<"2">>, line.device)
        THEN [p1 EXCEPT !.name2 = line.device,
                        !.start2 = line.start * p1.unit,
                        !.sectors2 = line.sectors * p1.unit]
        ELSE p1

RECURSIVE parse_lines(_, _, _)
parse_lines(img, p, lines) ==
    IF lines = << >> THEN p ELSE parse_lines(img, parse_line(img, p, Head(lines)), Tail(lines))

NothingParsed ==
    [unit |-> 0, name1 |-> << >>, start1 |-> 0, sectors1 |-> 0,
     name2 |-> << >>, start2 |-> 0, sectors2 |-> 0]

\* parse_fdisk: [term, msg, ret]; os is the outcome of the fdisk command, whose
\* stdout is listing
parse_fdisk(img, listing, os, dbg) ==
    LET r == kdt_run_str(<<<<"fdisk">>, <<"-o">>, <<"Device,Start,Sectors">>, <<"-l">>, img>>,
                         <<FALSE, TRUE>>, FALSE, TRUE, os, dbg)
        p == parse_lines(img, NothingParsed, listing)
    IN  IF r.term = "exit" THEN [term |-> "exit", msg |-> r.msg, ret |-> NothingParsed]
        ELSE IF ~r.ret.ok THEN [term |-> "return", msg |-> << >>, ret |-> NothingParsed]
        ELSE IF 0 \in {p.unit, p.start1, p.sectors1}
        THEN [term |-> "exit", msg |-> FailParseFdisk(img), ret |-> NothingParsed]
        ELSE [term |-> "return", msg |-> << >>, ret |-> p]

\* the rows of the partitions of S, in the order of their numbers
RECURSIVE RowsOfPartitions(_, _)
RowsOfPartitions(S, first_start) ==
    IF S = {} THEN << >>
    ELSE LET n == CHOOSE m \in S : \A o \in S : m <= o
         IN  <<Row(n, IF n = 1 THEN first_start ELSE 2048 * n, 100 + n)>>
             \o RowsOfPartitions(S \ {n}, first_start)

\* the listings: with or without the Units: line, of any of the partitions, the
\* first partition at sector 0 or at sector 2048
Listings ==
    { units \o RowsOfPartitions(S, first_start) :
        units \in {<< >>, <<UnitsLine(512)>>, <<UnitsLine(4096)>>},
        S \in SUBSET PartitionNumbers, first_start \in {0, 2048} }

ParseFdisk ==
    /\ fd_pc = "ready"
    /\ \E os \in OsOutcomes :
         LET r == parse_fdisk(Img, fd_listing, os, FALSE)
         IN  /\ fd_pc' = IF r.term = "exit" THEN "exit" ELSE "returned"
             /\ fd_ret' = r.ret
             /\ fd_msg' = r.msg
    /\ UNCHANGED <<fd_listing, exceptFdisk>>

FdiskNext == ParseFdisk

FdiskInit ==
    /\ fd_pc = "ready"
    /\ fd_listing \in Listings
    /\ fd_ret = NothingParsed
    /\ fd_msg = << >>

(***************************************************************************)
(* kdt_utils.kdt_config_section and kdt_update_section: the file ~/.kdt     *)
(* A file is [exists, text]; the text of an INI file is taken as the        *)
(* function from its section names to the options (key -> value) written    *)
(* under them.                                                              *)
(***************************************************************************)
DEFAULT == "DEFAULT"
DuplicateOptionError == <<"configparser.DuplicateOptionError">>

\* ConfigParser.optionxform: str.lower, on the keys of the model
optionxform(key) == IF key = "RPi" THEN "rpi" ELSE key

\* the options of a section with their keys through optionxform
Options(section) ==
    [k \in {optionxform(j) : j \in DOMAIN section} |->
        section[CHOOSE j \in DOMAIN section : optionxform(j) = k]]
\* two keys of the section are the same option (strict parser)
DuplicateOption(section) ==
    \E j, k \in DOMAIN section : j # k /\ optionxform(j) = optionxform(k)

\* ConfigParser.read: the sections of the file, DEFAULT among them
ConfigRead(file) == [name \in DOMAIN file.text |-> Options(file.text[name])]
\* ConfigParser.write: DEFAULT is written when it has options, every section always
ConfigWrite(config) ==
    [exists |-> TRUE,
     text |-> [name \in {n \in DOMAIN config : n # DEFAULT \/ DOMAIN config[n] # {}}
                 |-> config[name]]]
\* configs_file[section_name]: the options of the section and those of DEFAULT
SectionProxy(config, section_name) ==
    IF DEFAULT \in DOMAIN config /\ section_name # DEFAULT
    THEN config[section_name] @@ config[DEFAULT]
    ELSE config[section_name]

\* [found |-> FALSE] is None
kdt_config_section(file, section_name) ==
    IF ~file.exists THEN [found |-> FALSE, section |-> << >>]
    ELSE LET configs_file == ConfigRead(file)
         IN  IF section_name \in DOMAIN configs_file
             THEN [found |-> TRUE, section |-> SectionProxy(configs_file, section_name)]
             ELSE [found |-> FALSE, section |-> << >>]

\* [pc |-> "done" | "crash", file |-> ~/.kdt afterwards, msg]
kdt_update_section(file, section_name, section) ==
    LET kdt_config == IF file.exists THEN ConfigRead(file) ELSE << >>
    IN  IF DuplicateOption(section)
        THEN [pc |-> "crash", file |-> file, msg |-> DuplicateOptionError]
        ELSE [pc |-> "done", msg |-> << >>,
              file |-> ConfigWrite(Put(kdt_config, section_name, Options(section)))]

\* the sections kdt_install writes, the keys and the values of the model
KdtSectionNames == {"get_ip", "kernel_builder"}
KdtKeys == {"pc", "rpi", "RPi"}
KdtValues == {<<"aa:aa">>, <<"bb:bb">>}
\* the sections a caller writes: any keys, any values
KdtWritten ==
    UNION { [D -> KdtValues] : D \in SUBSET KdtKeys }
\* the sections a file holds, as an earlier write left them
KdtStored ==
    { ("pc" :> <<"aa:aa">>), ("pc" :> <<"bb:bb">>) @@ ("rpi" :> <<"aa:aa">>) }
\* no file, or a file of any of the sections, with or without a DEFAULT section
KdtFiles ==
    {NoFile} \cup
    { [exists |-> TRUE, text |-> d @@ g @@ k] :
        d \in {<< >>, (DEFAULT :> ("color" :> <<"1">>))},
        g \in {<< >>} \cup {("get_ip" :> o) : o \in KdtStored},
        k \in {<< >>} \cup {("kernel_builder" :> o) : o \in KdtStored} }

KdtUpdateSection ==
    /\ kc_pc \in {"ready", "done"}
    /\ \E section_name \in KdtSectionNames, section \in KdtWritten :
         LET r == kdt_update_section(kc_file, section_name, section)
         IN  /\ kc_pc' = r.pc
             /\ kc_file' = r.file
             /\ kc_prev' = kc_file
             /\ kc_name' = section_name
             /\ kc_section' = section
    /\ UNCHANGED exceptKdt

KdtNext == KdtUpdateSection

KdtInit ==
    /\ kc_pc = "ready"
    /\ kc_file \in KdtFiles
    /\ kc_prev = NoFile
    /\ kc_name = << >>
    /\ kc_section = << >>

(***************************************************************************)
(* kb <words for make>: main, KernelBuilder.make_command, __eclipse_links  *)
(***************************************************************************)
\* a command that was launched, with the way it ended
LogOf(r, os) == IF r.argv = << >> THEN << >> ELSE <<[argv |-> r.argv, status |-> os.status]>>

\* kdt_run(command) on each of commands in turn, its result dropped: the log
RECURSIVE run_all(_, _, _)
run_all(cmds, oss, dbg) ==
    IF cmds = << >> THEN << >>
    ELSE LogOf(kdt_run(Head(cmds), <<FALSE, TRUE>>, FALSE, FALSE, Head(oss), dbg),
               Head(oss))
         \o run_all(Tail(cmds), Tail(oss), dbg)

\* line 231, lines 362-366
eclipse_include == BuildPath \o <<"/eclipse_include">>
arch_include(params) ==
    IF params["arch"] = X86_64 THEN <<"arch/x86/include">>
    ELSE <<"arch/">> \o params["arch"] \o <<"/include">>

\* __eclipse_links(False), lines 384-387: the commands it runs
remove_links(params) ==
    << Words(<<"rm", "-rf">>) \o <<eclipse_include \o <<"/include">>>>,
       Words(<<"rm", "-rf">>) \o <<eclipse_include \o <<"/">> \o arch_include(params)>> >>

\* __eclipse_links(True), lines 372-382: the commands it runs after modules_prepare
create_links(params) ==
    LET build_include == kernel_build_path(params) \o <<"/include">>
        build_arch_include == kernel_build_path(params) \o <<"/">> \o arch_include(params)
        dest == eclipse_include \o <<"/include">>
        arch_dest == eclipse_include \o <<"/">> \o arch_include(params)
    IN  << Words(<<"mkdir", "-p">>) \o <<dest>>,
           Words(<<"ln", "-sf">>) \o <<build_include, dest \o <<"/generated">>>>,
           Words(<<"mkdir", "-p">>) \o <<arch_dest>>,
           Words(<<"ln", "-sf">>) \o <<build_arch_include \o <<"/generated">>,
                                       arch_dest \o <<"/generated">>>> >>

\* __eclipse_links(create) of a builder whose eclipse_links is enabled; uapi: does
\* <build>/include/generated/uapi exist. [term, msg, log]
eclipse_links(create, enabled, params, mk, uapi, oss, dbg) ==
    IF ~enabled THEN [term |-> "return", msg |-> << >>, log |-> << >>]
    ELSE IF ~create
    THEN [term |-> "return", msg |-> << >>, log |-> run_all(remove_links(params), oss, dbg)]
    ELSE LET m == make(mk, Words(<<"modules_prepare">>), oss[1], dbg)
         IN  IF uapi
             THEN [term |-> "return", msg |-> << >>,
                   log |-> run_all(create_links(params), Tail(oss), dbg)]
             ELSE IF m.term = "exit"
             THEN [term |-> "exit", msg |-> m.msg, log |-> << >>]
             ELSE [term |-> "return", msg |-> << >>,
                   log |-> LogOf(m, oss[1]) \o run_all(create_links(params), Tail(oss), dbg)]

\* the process ends: sys.exit(msg) of a message has status 1, sys.exit(-1) status 255
KbExit(status, msg) ==
    /\ kb_pc' = "exit"
    /\ kb_status' = status
    /\ kb_msg' = msg
\* the operation returns to main, which returns
KbDone ==
    /\ kb_pc' = "done"
    /\ kb_status' = 0
    /\ kb_msg' = << >>
KbGoOn(next) ==
    /\ kb_pc' = next
    /\ UNCHANGED <<kb_status, kb_msg>>

\* make_command, lines 750-753
MkRemoveLinks ==
    /\ kb_pc = "remove"
    /\ \E oss \in [1..2 -> OsOutcomes] :
         LET r == eclipse_links(FALSE, kb_opts.eclipse_links, build_params, make_command,
                                FALSE, oss, debug)
         IN  IF Len(kb_opts.command) = 0
             THEN KbDone /\ UNCHANGED kb_log
             ELSE kb_log' = kb_log \o r.log /\ KbGoOn("pass")
    /\ UNCHANGED <<kb_opts, kb_out, kb_path, exceptBuilder>>

\* make_command, lines 754-755
MkMakePass ==
    /\ kb_pc = "pass"
    /\ \E os \in OsOutcomes :
         LET r == make_pass(make_command, kb_opts.command, os, debug)
         IN  /\ kb_log' = kb_log \o LogOf(r, os)
             /\ IF r.term = "exit" THEN KbExit(1, r.msg)
                ELSE IF ~Truthy(r.ret) THEN KbExit(255, << >>)
                ELSE KbGoOn("create")
    /\ UNCHANGED <<kb_opts, kb_out, kb_path, exceptBuilder>>

\* make_command, line 756
MkCreateLinks ==
    /\ kb_pc = "create"
    /\ \E uapi \in BOOLEAN, oss \in [1..5 -> OsOutcomes] :
         LET r == eclipse_links(TRUE, kb_opts.eclipse_links, build_params, make_command,
                                uapi, oss, debug)
         IN  /\ kb_log' = kb_log \o r.log
             /\ IF r.term = "exit" THEN KbExit(1, r.msg) ELSE KbDone
    /\ UNCHANGED <<kb_opts, kb_out, kb_path, exceptBuilder>>

PassNext ==
    \/ MkRemoveLinks
    \/ MkMakePass
    \/ MkCreateLinks

\* kb [-d] <words>, the first word not a built-in command: main, lines 828-835
PassCommands == { << >>, Words(<<"menuconfig">>), Words(<<"-j8", "bzImage">>) }
PassInit ==
    /\ kb_pc = "remove"
    /\ kb_opts \in [eclipse_links : BOOLEAN, command : PassCommands]
    /\ kb_log = << >>
    /\ kb_out = << >>
    /\ kb_path = << >>
    /\ kb_status = -1
    /\ kb_msg = << >>

(***************************************************************************)
(* kb build [-p]: KernelBuilder.__kernel_build                             *)
(***************************************************************************)
NoPkgbuild(params) ==
    <<"Error! ">> \o params["pkg_folder"] \o <<"/PKGBUILD">> \o <<" does not exist!">>
Makepkg == Words(<<"makepkg", "--skipchecksums", "--skippgpcheck", "-f">>)

\* __kernel_make_build() and line 468: the build targets are made, the result dropped
BdMakeBuild ==
    /\ kb_pc = "build"
    /\ ~kb_opts.package
    /\ \E os \in OsOutcomes :
         LET r == make_str(make_command, build_params["build_target"], <<TRUE, FALSE>>,
                           TRUE, os, debug)
         IN  /\ kb_log' = kb_log \o LogOf(r, os)
             /\ IF r.term = "exit" THEN KbExit(1, r.msg) ELSE KbGoOn("modules")
    /\ UNCHANGED <<kb_opts, kb_out, kb_path, exceptBuilder>>

\* lines 469-470: make modules_install, and the return to main
BdModulesInstall ==
    /\ kb_pc = "modules"
    /\ \E os \in OsOutcomes :
         LET r == make(make_command, Words(<<"modules_install">>), os, debug)
         IN  /\ kb_log' = kb_log \o LogOf(r, os)
             /\ IF r.term = "exit" THEN KbExit(1, r.msg) ELSE KbDone
    /\ UNCHANGED <<kb_opts, kb_out, kb_path, exceptBuilder>>

\* lines 441-447: the PKGBUILD folder is copied to the package path
BdCopyPkgbuild ==
    /\ kb_pc = "build"
    /\ kb_opts.package
    /\ \E pkgbuild \in BOOLEAN, os \in OsOutcomes :
         LET cur == getattr("disk_rsync", current_command)
             r == run_current_command_check(
                      cur, <<build_params["pkg_folder"] \o <<"/">>,
                             package_path(build_params)>>, FALSE, os, debug)
         IN  IF ~pkgbuild
             THEN KbExit(1, NoPkgbuild(build_params)) /\ UNCHANGED <<kb_log, current_command>>
             ELSE /\ current_command' = cur
                  /\ kb_log' = kb_log \o LogOf(r, os)
                  /\ IF r.term = "exit" THEN KbExit(1, r.msg) ELSE KbGoOn("release")
    /\ UNCHANGED <<kb_opts, kb_out, kb_path, boardVars, debug, make_command, runnerVars,
                   diskVars, checkVars, hostsVars, patchVars, fdiskVars, kdtVars, configVars>>

\* line 461: __kernel_release(), lines 304-313. The exports of lines 449-461 set
\* KDT_* and ARCH in the environment makepkg is given; PATH and the commands are not
\* touched by them.
BdKernelRelease ==
    /\ kb_pc = "release"
    /\ \E auto_conf \in BOOLEAN, os \in OsOutcomes :
         LET r == make_str(make_command, Words(<<"--no-print-directory", "kernelrelease">>),
                           <<FALSE, TRUE>>, FALSE, os, debug)
         IN  IF ~auto_conf
             THEN KbExit(1, ConfigureFirst) /\ UNCHANGED kb_log
             ELSE /\ kb_log' = kb_log \o LogOf(r, os)
                  /\ IF r.term = "exit" THEN KbExit(1, r.msg)
                     ELSE IF ~r.ret.ok THEN KbExit(1, FailKernelRelease)
                     ELSE KbGoOn("makepkg")
    /\ UNCHANGED <<kb_opts, kb_out, kb_path, exceptBuilder>>

\* lines 462-467: makepkg in the package path, then the .zst files found there are
\* reported; files is what listdir gives
BdMakepkg ==
    /\ kb_pc = "makepkg"
    /\ \E files \in {<< >>, <<ArchPackage>>, <<<<"PKGBUILD">>, ArchPackage>>},
          os \in OsOutcomes :
         LET r == kdt_run_str(Makepkg, <<TRUE, FALSE>>, FALSE, TRUE, os, debug)
             zst == SelectSeq(files, LAMBDA f : f = ArchPackage)
         IN  /\ kb_log' = kb_log \o LogOf(r, os)
             /\ IF r.term = "exit"
                THEN KbExit(1, r.msg) /\ UNCHANGED kb_out
                ELSE /\ kb_out' = kb_out \o
                         [i \in 1..Len(zst) |->
                             <<"Package: ">> \o package_path(build_params) \o <<"/">> \o zst[i]]
                     /\ KbDone
    /\ UNCHANGED <<kb_opts, kb_path, exceptBuilder>>

BuildNext ==
    \/ BdMakeBuild
    \/ BdModulesInstall
    \/ BdCopyPkgbuild
    \/ BdKernelRelease
    \/ BdMakepkg

\* kb build [-p] [-d]
BuildInit ==
    /\ kb_pc = "build"
    /\ kb_opts \in [package : BOOLEAN]
    /\ kb_log = << >>
    /\ kb_out = << >>
    /\ kb_path = << >>
    /\ kb_status = -1
    /\ kb_msg = << >>

(***************************************************************************)
(* KernelBuilder.__init__ from line 233 on: the compiler and the paths     *)
(***************************************************************************)
NoBoardsFolder == <<"Error! Boards folder doesn't exist: ">> \o KdtBoards
CompilerNotFound == <<"Error! Compiler not found">>
TypeError == <<"TypeError: expected str, bytes or os.PathLike object, not bool">>
CcacheBin == <<"/usr/lib/ccache/bin/">>

\* lines 238-244: cross_compiler_path, cross_compiler
cross_compiler(params) ==
    IF is_x86(params) THEN << << >>, << >> >> ELSE <<params["cc_path"], params["cc"]>>
\* lines 278-281: cc_path with its slash, and the compiler probed
slashed(cc_path) == IF cc_path # << >> THEN cc_path \o <<"/">> ELSE cc_path
gcc_version(cc_path, cc_prefix) ==
    << slashed(cc_path) \o cc_prefix \o <<"gcc">>, <<"--version">> >>

\* a ccache that cannot be run ends the process as a compiler that cannot be run does
compiler_path_ccache_needed(params, cc_path, cc_prefix, dir_exists, oss, dbg) ==
    LET gcc == kdt_run(gcc_version(cc_path, cc_prefix), <<FALSE, TRUE>>, FALSE, FALSE,
                       oss[1], dbg)
        ccache == kdt_run(Words(<<"ccache", "--version">>), <<FALSE, TRUE>>, FALSE, FALSE,
                          oss[2], dbg)
    IN  IF ~gcc.ret.ok
        THEN [term |-> "exit", msg |-> CompilerNotFound, new_path |-> << >>,
              log |-> LogOf(gcc, oss[1])]
        ELSE IF ~ccache.ret.ok
        THEN [term |-> "exit", msg |-> CompilerNotFound, new_path |-> << >>,
              log |-> LogOf(gcc, oss[1]) \o LogOf(ccache, oss[2])]
        ELSE [term |-> "return", msg |-> << >>, new_path |-> CcacheBin,
              log |-> LogOf(gcc, oss[1]) \o LogOf(ccache, oss[2])]
\* __compiler_path(cc_path, cc_prefix); dir_exists: does <cc_path>/ccache exist; oss:
\* the outcomes of gcc, ccache, which and mkdir. [term, msg, new_path, log]. The first
\* ln of line 297 is handed the bool that kdt_run returned for 'which ccache' in its
\* argument list, which subprocess.run refuses with a TypeError.
compiler_path(params, cc_path, cc_prefix, dir_exists, oss, dbg) ==
    LET gcc == kdt_run(gcc_version(cc_path, cc_prefix), <<FALSE, TRUE>>, FALSE, FALSE,
                       oss[1], dbg)
        ccache == kdt_run(Words(<<"ccache", "--version">>), <<FALSE, TRUE>>, FALSE, FALSE,
                          oss[2], dbg)
        ccache_dir == slashed(cc_path) \o <<"ccache">>
        probes == LogOf(gcc, oss[1]) \o LogOf(ccache, oss[2])
        which == kdt_run(Words(<<"which", "ccache">>), <<FALSE, TRUE>>, FALSE, FALSE,
                         oss[3], dbg)
        mkdir == kdt_run(<<<<"mkdir">>, ccache_dir>>, <<FALSE, TRUE>>, FALSE, FALSE,
                         oss[4], dbg)
    IN  IF ~gcc.ret.ok
        THEN [term |-> "exit", msg |-> CompilerNotFound, new_path |-> << >>,
              log |-> LogOf(gcc, oss[1])]
        ELSE IF ~ccache.ret.ok
        THEN [term |-> "return", msg |-> << >>, log |-> probes,
              new_path |-> IF is_x86(params) THEN << >> ELSE slashed(cc_path)]
        ELSE IF is_x86(params)
        THEN [term |-> "return", msg |-> << >>, log |-> probes, new_path |-> CcacheBin]
        ELSE IF ~dir_exists
        THEN [term |-> "crash", msg |-> TypeError, new_path |-> << >>,
              log |-> probes \o LogOf(which, oss[3]) \o LogOf(mkdir, oss[4])]
        ELSE [term |-> "return", msg |-> << >>, log |-> probes,
              new_path |-> ccache_dir \o <<":">> \o slashed(cc_path)]

\* BashCommands.set_prefix_path
set_prefix_path(prefix, path) == prefix \o <<":">> \o path

\* line 233
StBoardsFolder ==
    /\ kb_pc = "start"
    /\ \E exists \in BOOLEAN :
         IF exists THEN KbGoOn("compiler") ELSE KbExit(1, NoBoardsFolder)
    /\ UNCHANGED <<kb_opts, kb_log, kb_out, kb_path, exceptBuilder>>

\* lines 236-255: what debug prints, the compiler path, and the PATH of the commands
StCompilerPath ==
    /\ kb_pc = "compiler"
    /\ \E dir_exists \in BOOLEAN, oss \in [1..4 -> OsOutcomes] :
         LET cc == cross_compiler(build_params)
             r == compiler_path(build_params, cc[1], cc[2], dir_exists, oss, debug)
             exports == <<<<"export ARCH=">> \o build_params["arch"]>>
                        \o (IF is_x86(build_params) THEN << >>
                            ELSE <<<<"export CROSS_COMPILE=">> \o cc[2]>>)
         IN  /\ kb_log' = kb_log \o r.log
             /\ IF r.term = "return"
                THEN /\ KbGoOn("paths")
                     /\ kb_path' = IF r.new_path # << >>
                                   THEN set_prefix_path(r.new_path, kb_path) ELSE kb_path
                     /\ kb_out' = IF ~debug THEN kb_out
                                  ELSE kb_out \o exports \o
                                       (IF r.new_path # << >>
                                        THEN <<<<"export PATH=">> \o r.new_path
                                                   \o <<":$PATH">>>>
                                        ELSE << >>)
                ELSE /\ kb_pc' = r.term
                     /\ kb_status' = 1
                     /\ kb_msg' = r.msg
                     /\ kb_out' = IF debug THEN kb_out \o exports ELSE kb_out
                     /\ UNCHANGED kb_path
    /\ UNCHANGED <<kb_opts, exceptBuilder>>

\* __check_build_paths: missing is the paths that do not exist, in the order of the code
StCheckBuildPaths ==
    /\ kb_pc = "paths"
    /\ \E missing \in SUBSET (1..3), oss \in [1..3 -> OsOutcomes] :
         LET paths == <<kernel_build_path(build_params), package_path(build_params),
                        install_modules_path(build_params)>>
             mkdirs == [i \in 1..3 |-> Words(<<"mkdir", "-p">>) \o <<paths[i]>>]
         IN  kb_log' = kb_log \o run_all(SelectSeq(mkdirs, LAMBDA c :
                                             \E i \in missing : c = mkdirs[i]), oss, debug)
    /\ KbDone
    /\ UNCHANGED <<kb_opts, kb_out, kb_path, exceptBuilder>>

StartNext ==
    \/ StBoardsFolder
    \/ StCompilerPath
    \/ StCheckBuildPaths

\* KernelBuilder(debug), its BoardConfig constructed
StartInit ==
    /\ kb_pc = "start"
    /\ kb_opts = << >>
    /\ kb_log = << >>
    /\ kb_out = << >>
    /\ kb_path = ValueOf("PATH")
    /\ kb_status = -1
    /\ kb_msg = << >>

\* boards of an arm64 and of an x86_64 section, with and without cc_path
StartBoards ==
    LET with == BoardConfigsWith(RPI, {}) \cup BoardConfigsWith(PC, {})
    IN  with \cup { [p EXCEPT !["cc_path"] = << >>] : p \in with }

(***************************************************************************)
(* The specifications                                                      *)
(***************************************************************************)
DiskIdle ==
    /\ dk_pc = "idle"
    /\ dk_dest = ""
    /\ dk_nparts = 0
    /\ dk_mounted = {}
    /\ dk_log = << >>
    /\ dk_ret = <<FALSE, FALSE>>
    /\ dk_failed = ""
    /\ dk_msg = << >>

CheckIdle ==
    /\ ck_pc = "idle"
    /\ ck_n = 0
    /\ ck_patches = << >>
    /\ ck_i = 0
    /\ ck_head = << >>
    /\ ck_branch_name = << >>
    /\ ck_has_warnings = 0
    /\ ck_build = <<FALSE, FALSE>>
    /\ ck_report = << >>
    /\ ck_status = -1
    /\ ck_msg = << >>

HostsIdle ==
    /\ hs_pc = "idle"
    /\ etc_hosts = << >>
    /\ host_mac_list = << >>
    /\ hs_scan = << >>
    /\ hs_prev_hosts = << >>
    /\ hs_prev_scan = << >>
    /\ hs_runs = 0
    /\ hs_msg = << >>

PatchIdle ==
    /\ pf_pc = "idle"
    /\ pf_file = NoFile
    /\ pf_prev = NoFile
    /\ pf_runs = 0
FdiskIdle ==
    /\ fd_pc = "idle"
    /\ fd_listing = << >>
    /\ fd_ret = << >>
    /\ fd_msg = << >>
KdtIdle ==
    /\ kc_pc = "idle"
    /\ kc_file = NoFile
    /\ kc_prev = NoFile
    /\ kc_name = << >>
    /\ kc_section = << >>
ConfigIdle ==
    /\ cf_pc = "idle"
    /\ cf_proc_gz = FALSE
    /\ cf_log = << >>
    /\ cf_dotconfig = "absent"
    /\ cf_msg = << >>
BuilderIdle ==
    /\ kb_pc = "idle"
    /\ kb_opts = << >>
    /\ kb_log = << >>
    /\ kb_out = << >>
    /\ kb_path = << >>
    /\ kb_status = -1
    /\ kb_msg = << >>
ToolsIdle == PatchIdle /\ FdiskIdle /\ KdtIdle /\ ConfigIdle /\ BuilderIdle

InitBoard == BoardInit /\ BashIdle /\ RunnerIdle /\ DiskIdle /\ CheckIdle /\ HostsIdle /\ ToolsIdle
NextBoard == BoardNext
SpecBoard == InitBoard /\ [][NextBoard]_vars

\* the board of a section that sets ramfs_file and update_ramfs
RamfsBoards ==
    { p \in BoardConfigsWith(RPI, {"ramfs_file", "update_ramfs"}) :
        /\ {"ramfs_file", "update_ramfs"} \subseteq DOMAIN p
        /\ Bool(p["ramfs_file"]) }
InitDisk ==
    /\ BuilderInit(BoardConfigsWith(RPI, {"dtb_path", "vendor", "overlay_path"})
                   \cup RamfsBoards)
    /\ DiskInit /\ RunnerIdle /\ CheckIdle /\ HostsIdle /\ ToolsIdle
NextDisk == DiskNext
SpecDisk == InitDisk /\ [][NextDisk]_vars

InitCheck ==
    /\ BuilderInit(BoardConfigsOf(RPI, ConfigKeys))
    /\ CheckInit /\ RunnerIdle /\ DiskIdle /\ HostsIdle /\ ToolsIdle
NextCheck == CheckNext
SpecCheck == InitCheck /\ [][NextCheck]_vars

InitHosts ==
    /\ HostsInit /\ BoardIdle /\ BashIdle /\ RunnerIdle /\ DiskIdle /\ CheckIdle /\ ToolsIdle
NextHosts == HostsNext
SpecHosts == InitHosts /\ [][NextHosts]_vars

InitPatch ==
    /\ PatchInit /\ BoardIdle /\ BashIdle /\ RunnerIdle /\ DiskIdle /\ CheckIdle /\ HostsIdle
    /\ FdiskIdle /\ KdtIdle /\ ConfigIdle /\ BuilderIdle
NextPatch == PatchNext
SpecPatch == InitPatch /\ [][NextPatch]_vars

InitFdisk ==
    /\ FdiskInit /\ BoardIdle /\ BashIdle /\ RunnerIdle /\ DiskIdle /\ CheckIdle /\ HostsIdle
    /\ PatchIdle /\ KdtIdle /\ ConfigIdle /\ BuilderIdle
NextFdisk == FdiskNext
SpecFdisk == InitFdisk /\ [][NextFdisk]_vars

InitKdt ==
    /\ KdtInit /\ BoardIdle /\ BashIdle /\ RunnerIdle /\ DiskIdle /\ CheckIdle /\ HostsIdle
    /\ PatchIdle /\ FdiskIdle /\ ConfigIdle /\ BuilderIdle
NextKdt == KdtNext
SpecKdt == InitKdt /\ [][NextKdt]_vars

InitConfig ==
    /\ BuilderInit(BoardConfigsOf(RPI, ConfigKeys) \cup BoardConfigsOf(PC, ConfigKeys))
    /\ ConfigInit /\ RunnerIdle /\ DiskIdle /\ CheckIdle /\ HostsIdle
    /\ PatchIdle /\ FdiskIdle /\ KdtIdle /\ BuilderIdle
NextConfig == ConfigNext
SpecConfig == InitConfig /\ [][NextConfig]_vars

InitPass ==
    /\ BuilderInit(BoardConfigsOf(RPI, ConfigKeys) \cup BoardConfigsOf(PC, ConfigKeys))
    /\ PassInit /\ RunnerIdle /\ DiskIdle /\ CheckIdle /\ HostsIdle
    /\ PatchIdle /\ FdiskIdle /\ KdtIdle /\ ConfigIdle
NextPass == PassNext
SpecPass == InitPass /\ [][NextPass]_vars

InitBuild ==
    /\ BuilderInit(BoardConfigsWith(RPI, {"dtb_path"}) \cup BoardConfigsWith(PC, {"dtb_path"}))
    /\ BuildInit /\ RunnerIdle /\ DiskIdle /\ CheckIdle /\ HostsIdle
    /\ PatchIdle /\ FdiskIdle /\ KdtIdle /\ ConfigIdle
NextBuild == BuildNext
SpecBuild == InitBuild /\ [][NextBuild]_vars

InitStart ==
    /\ BuilderInit(StartBoards)
    /\ StartInit /\ RunnerIdle /\ DiskIdle /\ CheckIdle /\ HostsIdle
    /\ PatchIdle /\ FdiskIdle /\ KdtIdle /\ ConfigIdle
NextStart == StartNext
SpecStart == InitStart /\ [][NextStart]_vars

InitRunner ==
    /\ BashInit /\ RunnerInit /\ BoardIdle /\ DiskIdle /\ CheckIdle /\ HostsIdle /\ ToolsIdle
NextRunner == RunnerNext
SpecRunner == InitRunner /\ [][NextRunner]_vars

(***************************************************************************)
(* Claims on BoardConfig                                                   *)
(***************************************************************************)
\* the configuration sources a constructed BoardConfig holds: config_target and
\* config_file are stored under their names, config_gz only as config_to_use
SourcesSet(params) ==
    {k \in {"config_target", "config_file"} : k \in DOMAIN params}
    \cup (IF "config_to_use" \in DOMAIN params /\ params["config_to_use"] = <<"config_gz">>
          THEN {"config_gz"} ELSE {})

EnvSet == {k \in ConfigKeys : k \in DOMAIN bash_env /\ Bool(bash_env[k])}
SectSet(sect) == {k \in ConfigKeys : k \in DOMAIN sect /\ Bool(sect[k])}
\* has the constructor got as far as reading the board section
SectionRead == "arch" \in DOMAIN build_params /\ board_arch(build_params) \in DOMAIN boards_config
BoardSect == boards_config[board_arch(build_params)]
Terminated == bc_pc \in {"exit", "crash"}

\* C1: a constructed BoardConfig (the constructor returned instead of terminating the
\* process) has exactly one of config_target, config_file, config_gz set, and
\* config_to_use names that one.
C1_ExactlyOneSource ==
    bc_pc = "done" =>
        /\ Cardinality(SourcesSet(build_params)) = 1
        /\ "config_to_use" \in DOMAIN build_params
        /\ SourcesSet(build_params) = {build_params["config_to_use"][1]}

\* C2: the constructor terminates the process whenever the level it selects from (the
\* environment if it sets any of the three, else the board section) sets more than one
\* of config_target, config_file, config_gz, and whenever neither level sets any.
C2_BadSelectionIsFatal ==
    (/\ bc_pc # "new"
     /\ SectionRead
     /\ \/ Cardinality(EnvSet) > 1
        \/ EnvSet = {} /\ Cardinality(SectSet(BoardSect)) # 1)
    => Terminated

\* the arches of the sections of a board, read off the section names
ArchesOf(board) == {SectionArch(n) : n \in {m \in Range(sections) : SectionBoard(m) = board}}
BoardKnown ==
    /\ "board" \in DOMAIN bash_env
    /\ \E n \in Range(sections) : SectionBoard(n) = bash_env["board"]

\* C13: when no arch is exported, the arch selected for a configured board is its
\* only arch if it has one arch; otherwise the x86_64 or x86 arch the board has, if
\* it has one of them; otherwise arm64.
C13_ArchAutoSelection ==
    (bc_pc # "new" /\ BoardKnown /\ "arch" \notin DOMAIN bash_env) =>
        LET archs == ArchesOf(bash_env["board"])
        IN  /\ "arch" \in DOMAIN build_params
            /\ IF Cardinality(archs) = 1 THEN build_params["arch"] \in archs
               ELSE IF archs \cap {X86_64, X86} # {}
               THEN build_params["arch"] \in archs \cap {X86_64, X86}
               ELSE build_params["arch"] = ARM64

\* board rpi of the sections rpi_arm64, rpi_x86, pc_x86_64: x86_64 is selected, an
\* arch the board does not have, and the look-up of section rpi_x86_64 ends the process
C13_SelectedArchNotConfigured ==
    /\ bc_pc = "crash"
    /\ "arch" \notin DOMAIN bash_env
    /\ BoardKnown
    /\ bash_env["board"] = RPI
    /\ ArchesOf(RPI) = {ARM64, X86}
    /\ build_params["arch"] = X86_64
    /\ bc_msg = KeyError(Sect(RPI, X86_64))

\* the cases of C14, read off the environment and the registry
NoBoardSelected == "board" \notin DOMAIN bash_env
BoardWithoutSection == "board" \in DOMAIN bash_env /\ ~BoardKnown
ExportedArchNotConfigured ==
    /\ BoardKnown
    /\ "arch" \in DOMAIN bash_env
    /\ bash_env["arch"] \notin ArchesOf(bash_env["board"])
\* the section the constructor reads its keys from, when it gets that far
KeysRead == bc_pc \in {"done", "exit"} /\ BoardKnown /\ "arch" \in DOMAIN build_params
                /\ board_arch(build_params) \in DOMAIN boards_config
MandatoryKeyMissing ==
    /\ KeysRead
    /\ {"kernel_target", "kernel_file"} \ DOMAIN boards_config[board_arch(build_params)] # {}
RamfsWithoutUpdate ==
    /\ KeysRead
    /\ "ramfs_file" \in DOMAIN boards_config[board_arch(build_params)]
    /\ boards_config[board_arch(build_params)]["ramfs_file"] # << >>
    /\ "update_ramfs" \notin DOMAIN boards_config[board_arch(build_params)]

\* C14: in each of the five cases the constructor ends the process with a message
\* of its own (sys.exit) and returns no BoardConfig.
C14_FailsFast ==
    (bc_pc # "new" /\ (\/ NoBoardSelected
                       \/ BoardWithoutSection
                       \/ ExportedArchNotConfigured
                       \/ MandatoryKeyMissing
                       \/ RamfsWithoutUpdate)) =>
        bc_pc = "exit" /\ bc_msg # << >>

\* no board selected and a boards file without sections: the constructor is ended
\* by the IndexError of board_options[0], not by its message
C14_NoBoardNoSections ==
    /\ bc_pc = "crash"
    /\ NoBoardSelected
    /\ sections = << >>
    /\ bc_msg = IndexError

\* the README registry and the result the specification gives for it
ReadmeRegistry == <<Sect(RPI, ARM64), Sect(RPI, X86), Sect(PC, X86_64)>>
ReadmeBoards == (RPI :> <<ARM64, X86>>) @@ (PC :> <<X86_64>>)
\* name is board, an underscore, and something more
StartsWithBoard(name, board) ==
    Len(name) > Len(board) /\ SubSeq(name, 1, Len(board) + 1) = board \o <<"_">>
\* the section names of a board in registry order
SectionsOfBoard(board) ==
    LET Test(name) == StartsWithBoard(name, board) IN SelectSeq(sections, Test)
\* the (board, arch) pairs of the result joined with '_', in the order of the result
JoinedWith(boards_arch, board) ==
    [i \in 1..Len(boards_arch[board]) |-> board \o <<"_">> \o boards_arch[board][i]]

\* C15: the result of available_configured_boards has as keys the parts of the
\* section names before their first underscore, each mapped to the parts after the
\* first underscore of the sections of that board in registry order, so the joined
\* pairs are exactly the section names; the README registry gives
\* {rpi: [arm64, x86], pc: [x86_64]}.
C15_BoardsAndArches ==
    bc_pc # "new" =>
        LET boards_arch == available_configured_boards(sections)
        IN  /\ \A board \in DOMAIN boards_arch :
                  /\ "_" \notin Range(board)
                  /\ JoinedWith(boards_arch, board) = SectionsOfBoard(board)
            /\ \A i \in DOMAIN sections :
                  \E board \in DOMAIN boards_arch : StartsWithBoard(sections[i], board)
            /\ (sections = ReadmeRegistry => boards_arch = ReadmeBoards)

C15_Witness ==
    /\ bc_pc # "new"
    /\ sections = ReadmeRegistry
    /\ available_configured_boards(sections) = ReadmeBoards
    /\ JoinedWith(available_configured_boards(sections), RPI)
           = <<Sect(RPI, ARM64), Sect(RPI, X86)>>

\* the board is resolved: the constructor returned
Resolved == bc_pc = "done"
\* key k of the section the board was resolved from has a non-empty value
SectionHas(k) ==
    /\ k \in DOMAIN boards_config[board_arch(build_params)]
    /\ boards_config[board_arch(build_params)][k] # << >>
WithoutDtbs == <<build_params["kernel_target"], <<"modules">>>>
WithDtbs == <<build_params["kernel_target"], <<"modules">>, <<"dtbs">>>>

\* C16 (as stated): the build targets depend on dtb_path only: with a non-empty
\* dtb_path they are [kernel_target, modules, dtbs], without one they are
\* [kernel_target, modules], whatever the other keys are.
C16_DtbPathOnly ==
    Resolved =>
        build_params["build_target"] = IF SectionHas("dtb_path") THEN WithDtbs ELSE WithoutDtbs

\* C16 (amended): with a non-empty dtb_path the build targets are
\* [kernel_target, modules, dtbs]; without a dtb_path they are [kernel_target,
\* modules] when the section has neither vendor nor overlay_path, and
\* [kernel_target, modules, dtbs] when it has one of them.
C16_DtbPathVendorOverlay ==
    Resolved =>
        /\ SectionHas("dtb_path") => build_params["build_target"] = WithDtbs
        /\ (~SectionHas("dtb_path") /\ ~SectionHas("vendor") /\ ~SectionHas("overlay_path"))
               => build_params["build_target"] = WithoutDtbs
        /\ (~SectionHas("dtb_path") /\ (SectionHas("vendor") \/ SectionHas("overlay_path")))
               => build_params["build_target"] = WithDtbs

\* a board without dtb_path whose vendor alone brings 'dtbs' in
C16_Witness ==
    /\ Resolved
    /\ ~SectionHas("dtb_path") /\ SectionHas("vendor") /\ ~SectionHas("overlay_path")
    /\ build_params["build_target"] = WithDtbs

\* C17: the build targets of a resolved board are kernel_target, then 'modules',
\* then 'dtbs' iff one of dtb_path, vendor, overlay_path is non-empty; 'dtbs' is
\* there at most once and kernel_target is first.
C17_BuildTargets ==
    Resolved =>
        LET targets == build_params["build_target"]
            dtbs == {i \in DOMAIN targets : targets[i] = <<"dtbs">>}
        IN  /\ Len(targets) >= 2
            /\ targets[1] = build_params["kernel_target"]
            /\ targets[1] = boards_config[board_arch(build_params)]["kernel_target"]
            /\ targets[2] = <<"modules">>
            /\ Cardinality(dtbs) <= 1
            /\ dtbs = DOMAIN targets \ {1, 2}
            /\ (dtbs # {}) <=> \E k \in {"dtb_path", "vendor", "overlay_path"} : SectionHas(k)

\* a board with all three keys: one 'dtbs'
C17_Witness ==
    /\ Resolved
    /\ \A k \in {"dtb_path", "vendor", "overlay_path"} : SectionHas(k)
    /\ build_params["build_target"] = <<<<"Image">>, <<"modules">>, <<"dtbs">>>>

(***************************************************************************)
(* Claims on the command runner                                            *)
(***************************************************************************)
Wrappers == DOMAIN commands
ReportsFailure(ret) == ret.kind \in {"bool", "tuple"} /\ ~ret.ok

\* C5 as stated: whenever an entry point launches a command whose executable does not
\* exist, the process terminates with a diagnostic and nothing returns to the caller.
C5_MissingExecutableAlwaysFatal ==
    rn_os.status = "notfound" => rn_pc = "exit" /\ rn_msg # << >>

\* C5, amended: a command whose executable does not exist terminates the process with
\* "FAIL: <command>" when kdt_run_str, make_str, make_pass or a wrapper launched it;
\* kdt_run returns False to its caller, and make, which runs through kdt_run, None.
C5_MissingExecutable ==
    rn_os.status = "notfound" =>
        CASE rn_call.entry = "kdt_run" -> rn_pc = "returned" /\ rn_ret = RetBool(FALSE)
          [] rn_call.entry = "make"    -> rn_pc = "returned" /\ rn_ret = RetNone
          [] OTHER -> rn_pc = "exit" /\ rn_msg = Fail(rn_argv) /\ rn_argv # << >>

C5_Witness ==
    /\ rn_os.status = "notfound"
    /\ rn_call.entry = "kdt_run_str"
    /\ rn_pc = "exit"

CallerList ==
    LET sudo_cmd == IF rn_call.sudo THEN <<<<"sudo">>>> ELSE << >>
    IN  CASE rn_call.entry \in {"kdt_run", "kdt_run_str"} -> sudo_cmd \o rn_call.command
          [] rn_call.entry \in {"make", "make_str", "make_pass"} ->
                make_command \o rn_call.command
          [] rn_call.entry \in Wrappers ->
                sudo_cmd \o commands[rn_call.entry] \o rn_call.command

IsMountOf(argv, mp) == <<"mount">> \in Range(argv) /\ argv[Len(argv)] = mp
RootMountLaunched == \E i \in DOMAIN dk_log : IsMountOf(dk_log[i], MountPoint)
UmountAttempted == \E i \in DOMAIN dk_log : <<"umount">> \in Range(dk_log[i])
CopySteps == {"modules", "kernel", "dtbs", "sync"}
DiskEnded == dk_pc \in {"done", "exit"}

\* C3: when a disk or an image is the destination and the root partition has been
\* mounted, a run in which the copy of the modules, of the kernel image or of the
\* device trees, or the sync, has failed does not end before an unmount was attempted.
C3_UnmountAfterCopyFailure ==
    (DiskEnded /\ ToDisk /\ RootMountLaunched /\ dk_failed \in CopySteps) => UmountAttempted

\* C4: when the mount of the boot partition fails after the root partition was
\* mounted, the root partition is unmounted again, disk_mount returns (False, False)
\* and the caller reports the mount failure: the process does not end with the root
\* partition still mounted.
C4_BootMountFailureRollsBack ==
    dk_failed = "mount_boot" =>
        /\ "root" \notin dk_mounted
        /\ dk_ret = <<FALSE, FALSE>>
        /\ dk_msg = FailMountRoot(Disk(dk_dest))
        /\ UmountAttempted

(***************************************************************************)
(* Claims on kb check N                                                    *)
(***************************************************************************)
CheckEnded == ck_pc \in {"exit", "crash"}
AllGood == Len(ck_report) = ck_n /\ \A i \in DOMAIN ck_report : ck_report[i] = "good"

\* C7: whatever the outcome of kb check N (every commit good, some commit bad, a
\* checked commit or the base commit failing to build, a git checkout failing), the
\* branch that was current at the start is checked out when the process ends.
C7_BranchRestored == CheckEnded => ck_head = Branch

\* the base commit fails to build: the process has ended on the base commit
C7_BaseBuildFailed ==
    /\ ck_pc = "exit" /\ ck_i = 0 /\ ck_msg \in {Stderr, Warning}
    /\ ck_patches # << >>
    /\ ck_head = Hash12(ck_patches[1]) /\ ck_head # Branch

\* a checked commit fails to build: the process has ended with status 0
C8_NoBuildStatusZero ==
    /\ ck_pc = "exit" /\ ~debug /\ ck_status = 0
    /\ ck_report # << >> /\ ck_report[Len(ck_report)] = "nobuild"

\* C8: outside debug mode, kb check N ends with status 0 exactly when each of the N
\* commits was checked and reported good; a commit reported bad, or one that could
\* not be built, gives a status other than 0.
C8_StatusTellsFlagged == (CheckEnded /\ ~debug) => (ck_status = 0 <=> AllGood)

(***************************************************************************)
(* Claims on gip                                                           *)
(***************************************************************************)
\* C9: two runs of get_ips in succession that wrote /etc/hosts, with the same scan
\* and the same [get_ip] section, leave /etc/hosts after the second run as it was
\* after the first, whatever /etc/hosts held at first.
C9_SecondRunChangesNothing ==
    (hs_runs >= 2 /\ hs_scan = hs_prev_scan) => etc_hosts = hs_prev_hosts

\* the first file was empty: the second run has added a line end
C9_EmptyFileGrows ==
    /\ hs_runs = 2 /\ hs_scan = hs_prev_scan
    /\ Len(etc_hosts) = Len(hs_prev_hosts) + 1
    /\ hs_prev_hosts[1] = "\n" /\ SubSeq(etc_hosts, 1, 2) = <<"\n", "\n">>

\* positions i and j of text are in one line: no line end from the first to before
\* the second
SameLine(text, i, j) ==
    \A n \in (IF i < j THEN i ELSE j)..((IF i < j THEN j ELSE i) - 1) : text[n] # "\n"
\* the positions of text in lines that carry no marker
UnmarkedPositions(text) ==
    {i \in DOMAIN text : ~ \E j \in DOMAIN text : text[j] = Marker /\ SameLine(text, i, j)}
\* the lines of text that carry no marker, in their order
UnmarkedLines(text) ==
    LET P == UnmarkedPositions(text)
    IN  [n \in 1..Cardinality(P) |->
            text[CHOOSE i \in P : Cardinality({j \in P : j <= i}) = n]]
\* the rows of a scan that hold mac, and the address of the last of them
RowsOf(scan, mac) ==
    {h \in UNION {{<<r, n>> : n \in DOMAIN scan[r]} : r \in DOMAIN scan} :
        scan[h[1]][h[2]][2] = mac}
LastAddress(scan, mac) ==
    LET last == CHOOSE h \in RowsOf(scan, mac) :
                    \A g \in RowsOf(scan, mac) :
                        g[1] < h[1] \/ (g[1] = h[1] /\ g[2] <= h[2])
    IN  scan[last[1]][last[2]][1]
\* the options of the section whose MAC is in the scan, in the order of the section
Found(items, scan) ==
    LET Seen(item) == RowsOf(scan, item[2]) # {}
    IN  SelectSeq(items, Seen)
\* one line "<address> <hostname> #gip added" for each of them
AddedLines(items, scan) ==
    LET F == Found(items, scan)
    IN  [n \in 1..(6 * Len(F)) |->
            LET item == F[((n - 1) \div 6) + 1]
                c == (n - 1) % 6
            IN  CASE c = 0 -> LastAddress(scan, item[2])
                  [] c = 1 -> " "
                  [] c = 2 -> item[1]
                  [] c = 3 -> " "
                  [] c = 4 -> Marker
                  [] c = 5 -> "\n"]
EndsWith(text, tail) ==
    Len(text) >= Len(tail) /\ SubSeq(text, Len(text) - Len(tail) + 1, Len(text)) = tail
MarkerCount(text) == Cardinality({i \in DOMAIN text : text[i] = Marker})

LineStart(text, i) ==
    CHOOSE j \in 1..i : /\ j = 1 \/ text[j - 1] = "\n"
                        /\ \A n \in j..(i - 1) : text[n] # "\n"
\* the text without the lines that begin with Change-Id:
WithoutChangeIdLines(text) ==
    LET P == {i \in DOMAIN text : text[LineStart(text, i)] # ChangeId}
    IN  [n \in 1..Cardinality(P) |->
            text[CHOOSE i \in P : Cardinality({j \in P : j <= i}) = n]]

\* C11: remove_change_id takes out of the patch file the lines that begin with
\* Change-Id: and keeps every other line as it was, in order; a second call changes
\* nothing; a file that does not exist stays absent.
C11_RemovesChangeIdLinesOnly ==
    pf_pc = "done" =>
        /\ pf_file.exists = pf_prev.exists
        /\ pf_file.text = WithoutChangeIdLines(pf_prev.text)
        /\ pf_runs >= 2 => pf_file = pf_prev

\* a patch with a carriage return and no Change-Id: line has been rewritten
C11_CarriageReturnRewritten ==
    /\ pf_pc = "done" /\ pf_runs = 1
    /\ "\r" \in Range(pf_prev.text) /\ ChangeId \notin Range(pf_prev.text)
    /\ pf_file.text # pf_prev.text

(***************************************************************************)
(* Claims on parse_fdisk                                                   *)
(***************************************************************************)
UnitOf(listing) ==
    IF \E n \in DOMAIN listing : listing[n].kind = "units"
    THEN listing[CHOOSE n \in DOMAIN listing : listing[n].kind = "units"].unit ELSE 0
HasRow(listing, device) ==
    \E n \in DOMAIN listing : listing[n].kind = "row" /\ listing[n].device = device
RowOf(listing, device) ==
    listing[CHOOSE n \in DOMAIN listing :
                listing[n].kind = "row" /\ listing[n].device = device]

\* C12: when parse_fdisk returns from a listing, partition 1 is the row of device
\* img1 and partition 2 the row of device img2, each with offset Start x unit and
\* length Sectors x unit of that row, whatever other rows there are; with no row of
\* img2, partition 2 is ('', 0, 0); the unit, the offset and the length of
\* partition 1 are positive.
C12_RowsOfPartitions1And2 ==
    fd_pc = "returned" =>
        LET unit == UnitOf(fd_listing)
            dev1 == Img \o <<"1">>
            dev2 == Img \o <<"2">>
        IN  /\ unit > 0 /\ fd_ret.start1 > 0 /\ fd_ret.sectors1 > 0
            /\ HasRow(fd_listing, dev1)
            /\ fd_ret.name1 = dev1
            /\ fd_ret.start1 = RowOf(fd_listing, dev1).start * unit
            /\ fd_ret.sectors1 = RowOf(fd_listing, dev1).sectors * unit
            /\ IF HasRow(fd_listing, dev2)
               THEN /\ fd_ret.name2 = dev2
                    /\ fd_ret.start2 = RowOf(fd_listing, dev2).start * unit
                    /\ fd_ret.sectors2 = RowOf(fd_listing, dev2).sectors * unit
               ELSE /\ fd_ret.name2 = << >> /\ fd_ret.start2 = 0 /\ fd_ret.sectors2 = 0

\* a disk of ten partitions: the values returned for partition 1 are those of the
\* row of partition 10
C12_Partition10Taken ==
    /\ fd_pc = "returned"
    /\ HasRow(fd_listing, Img \o <<"1">>)
    /\ fd_ret.name1 = Img \o <<"1", "0">>
    /\ fd_ret.start1 = 2048 * 10 * UnitOf(fd_listing)

(***************************************************************************)
(* Claims on ~/.kdt                                                        *)
(***************************************************************************)
\* what reading a section gives: None, or its key/value pairs
ReadBack(file, name) == kdt_config_section(file, name)

\* C18: after kdt_update_section(name, section) the file exists, reading section
\* name gives exactly the key/value pairs written, and reading any other section
\* gives what it gave before.
C18_SectionReplaced ==
    kc_pc = "done" =>
        /\ kc_file.exists
        /\ ReadBack(kc_file, kc_name) = [found |-> TRUE, section |-> kc_section]
        /\ \A other \in KdtSectionNames \ {kc_name} :
              ReadBack(kc_file, other) = ReadBack(kc_prev, other)

\* the key RPi was written and the key rpi is read
C18_KeyLowered ==
    /\ kc_pc = "done"
    /\ ~kc_prev.exists
    /\ kc_section = ("RPi" :> <<"aa:aa">>)
    /\ ReadBack(kc_file, kc_name) = [found |-> TRUE, section |-> ("rpi" :> <<"aa:aa">>)]

(***************************************************************************)
(* Claims on kb config                                                     *)
(***************************************************************************)
ConfigEnded == cf_pc \in {"returned", "exit"}
ToUse == build_params["config_to_use"]
DotConfig == kernel_build_path(build_params) \o <<"/.config">>
MakeOf(target) == make_command \o <<target>>
Normalize == MakeOf(<<"olddefconfig">>)
\* the command that puts the config in place, for the two sources that have one
PlaceOf(to_use) ==
    IF to_use = <<"config_file">>
    THEN <<<<"cp">>, build_params["config_file"], DotConfig>>
    ELSE Words(<<"zcat", "/proc/config.gz">>)

\* C20: a configure runs the procedure of config_to_use and no other: for
\* config_target, make of the named target and nothing else; for config_file, the
\* copy to <build>/.config and then make olddefconfig; for config_gz, zcat of
\* /proc/config.gz into <build>/.config and then make olddefconfig. olddefconfig is
\* run only after the config has been put in place, and never for config_target.
C20_ConfigProcedures ==
    ConfigEnded =>
        /\ ToUse = <<"config_target">> =>
              /\ Len(cf_log) <= 1
              /\ \A i \in DOMAIN cf_log : cf_log[i].argv = MakeOf(build_params["config_target"])
        /\ ToUse \in {<<"config_file">>, <<"config_gz">>} =>
              /\ Len(cf_log) <= 2
              /\ Len(cf_log) >= 1 => cf_log[1].argv = PlaceOf(ToUse)
              /\ Len(cf_log) = 2 => cf_log[2].argv = Normalize
        /\ \A i \in DOMAIN cf_log :
              cf_log[i].argv = Normalize =>
                  /\ ToUse # <<"config_target">>
                  /\ i = 2
                  /\ cf_log[1].status = "zero"
                  /\ cf_dotconfig \in {"copied", "unzipped"}

\* the copy failed, there was no .config before, and olddefconfig is run
C20_NormalizeAfterFailedCopy ==
    /\ cf_pc = "returned"
    /\ ToUse = <<"config_file">>
    /\ Len(cf_log) = 2
    /\ cf_log[1].argv = PlaceOf(ToUse)
    /\ cf_log[1].status = "nonzero"
    /\ cf_log[2].argv = Normalize
    /\ cf_dotconfig = "absent"

(***************************************************************************)
(* Claims on the configuration source and on the selected arch             *)
(***************************************************************************)
\* the constructor has run select_kernel_config on the section of the board
SourceSelected == bc_pc \in {"done", "exit"} /\ BoardKnown /\ SectionRead
\* the value a level gives for the source that was selected
SelectedFrom(level) ==
    /\ build_params["config_to_use"][1] \in DOMAIN level
    /\ Bool(level[build_params["config_to_use"][1]])

\* C24: when the environment sets one of config_target, config_file, config_gz the
\* source, its value and the failures of the selection come from the environment
\* alone, whatever the board section sets; the section decides only when the
\* environment sets none.
C24_ExportedSourceFirst ==
    SourceSelected =>
        IF EnvSet # {}
        THEN /\ bc_msg # NoConfig
             /\ bc_msg = MoreThanOne => Cardinality(EnvSet) > 1
             /\ bc_pc = "done" =>
                   /\ SelectedFrom(bash_env)
                   /\ \A k \in {"config_target", "config_file"} :
                         k \in DOMAIN build_params => build_params[k] = bash_env[k]
             /\ (bc_pc = "exit" /\ "config_file" \in EnvSet /\ bc_msg # MoreThanOne)
                   => bc_msg = FileMissing(bash_env["config_file"]) \/ path_exists
        ELSE /\ bc_msg = MoreThanOne => Cardinality(SectSet(BoardSect)) > 1
             /\ bc_msg = NoConfig <=> SectSet(BoardSect) = {}
             /\ bc_pc = "done" =>
                   /\ SelectedFrom(BoardSect)
                   /\ "config_target" \in DOMAIN build_params
                         => build_params["config_target"] = BoardSect["config_target"]

\* the environment exports a target, the section sets a file and config_gz
C24_Witness ==
    /\ bc_pc = "done"
    /\ BoardKnown /\ SectionRead
    /\ EnvSet = {"config_target"}
    /\ SectSet(BoardSect) = {"config_file", "config_gz"}
    /\ build_params["config_to_use"] = <<"config_target">>
    /\ build_params["config_target"] = bash_env["config_target"]

\* C28: when set_arch returns, the arch it selected is one of the arches of the
\* board, and the section <board>_<arch> the constructor reads next is in the
\* registry.
C28_SelectedArchConfigured ==
    (bc_pc # "new" /\ BoardKnown /\ "arch" \in DOMAIN build_params) =>
        /\ build_params["arch"] \in ArchesOf(bash_env["board"])
        /\ board_arch(build_params) \in Range(sections)
        /\ bc_pc # "crash"

\* board pc of the sections pc_x86, pc_arm: x86_64 is selected and section
\* pc_x86_64 is looked up
C28_X86SelectedAsX86_64 ==
    /\ bc_pc = "crash"
    /\ BoardKnown
    /\ bash_env["board"] = PC
    /\ ArchesOf(PC) = {X86, <<"arm">>}
    /\ "arch" \in DOMAIN build_params
    /\ build_params["arch"] = X86_64
    /\ board_arch(build_params) \notin Range(sections)

(***************************************************************************)
(* Claims on the visits and on the make command of kb check N              *)
(***************************************************************************)
\* kb check N has gone through its loop and its last line, sys.exit(has_warnings)
CheckReturned == ck_pc = "exit" /\ ck_msg = << >> /\ ck_status \in {0, 1}
W1 == <<"W=", "1">>
W1Count == Cardinality({i \in DOMAIN make_command : make_command[i] = W1})

\* C22: kb check N builds the commit before the range as a baseline that is not
\* reported, then visits each of the last N commits once, oldest first, and
\* reports each of them good or bad: when it has run to its end, outside debug
\* mode, there are N reports, the i-th for the i-th oldest commit, each good or bad,
\* and the newest commit was the last one visited.
C22_EachCommitReported ==
    (CheckReturned /\ ~debug) =>
        /\ Len(ck_patches) = ck_n + 1
        /\ Len(ck_report) = ck_n
        /\ \A i \in DOMAIN ck_report : ck_report[i] \in {"good", "bad"}
        /\ ck_i = ck_n
        /\ (ck_has_warnings = 1) <=> (\E i \in DOMAIN ck_report : ck_report[i] = "bad")

\* the older of two commits cannot be built: it is reported neither good nor bad
\* and the newer one is not visited
C22_CommitSkipped ==
    /\ CheckReturned /\ ~debug
    /\ ck_n = 2
    /\ ck_i = 1
    /\ ck_report = <<"nobuild">>

\* C29: during kb check N the make command holds W=1 at most once, so every
\* commit is built with the make command of the first rebuild.
C29_W1AtMostOnce == ck_pc # "idle" => W1Count <= 1

\* the baseline and one commit were built: W=1 is there twice
C29_W1Twice ==
    /\ ck_pc = "format"
    /\ ck_i = 1
    /\ W1Count = 2
    /\ make_command = builder_make(build_params) \o <<W1, W1>>

(***************************************************************************)
(* Claims on the order of the steps of kb cp to a disk or an image         *)
(***************************************************************************)
\* the step a launched command belongs to, read off its argument vector
StepOf(argv) ==
    LET last == argv[Len(argv)]
    IN  CASE <<"mount">> \in Range(argv) ->
               IF last = BootMountPoint THEN "mount_boot" ELSE "mount_root"
          [] <<"umount">> \in Range(argv) ->
               IF last = BootMountPoint THEN "umount_boot" ELSE "umount_root"
          [] <<"rsync">> \in Range(argv) ->
               IF last = MountPoint \o <<"/lib/modules">> THEN "modules"
               ELSE IF last = MountPoint \o <<"/boot/">> \o build_params["kernel_file"]
               THEN "kernel"
               ELSE "dtbs"
          [] argv = <<<<"sync">>>> -> "sync"
          [] OTHER -> "other"
\* the steps of a log, in order, each named once for the commands it launched
RECURSIVE StepsOf(_)
StepsOf(log) ==
    IF log = << >> THEN << >>
    ELSE LET rest == StepsOf(Tail(log))
             step == StepOf(Head(log))
         IN  IF step = "other" \/ (rest # << >> /\ Head(rest) = step) THEN rest
             ELSE <<step>> \o rest
\* the partition a mount command mounts: its number on a device, the number in its
\* loop offset on an image
MountsPartition(argv, n) ==
    IF dk_dest = "dev" THEN Disk("dev") \o <<n>> \in Range(argv)
    ELSE /\ Disk("image") \in Range(argv)
         /\ \E i \in DOMAIN argv :
               /\ "loop,offset=" \in Range(argv[i])
               /\ \A j \in DOMAIN argv[i] : argv[i][j] \in {"1", "2"} => argv[i][j] = n
               /\ n \in Range(argv[i])
AllSucceeded == dk_pc = "done" /\ ToDisk /\ ~debug /\ dk_failed = ""
StepsInOrder(two) ==
    <<"mount_root">> \o (IF two THEN <<"mount_boot">> ELSE << >>)
    \o <<"modules", "kernel">>
    \o (IF Bool(build_params["dtb_path"]) THEN <<"dtbs">> ELSE << >>)
    \o <<"sync">> \o (IF two THEN <<"umount_boot">> ELSE << >>) \o <<"umount_root">>

\* C25: a deployment to a device or an image in which every step succeeds mounts
\* root, mounts boot when there is a second partition, copies the modules, the
\* kernel image and the device trees, syncs, unmounts boot if it was mounted and
\* unmounts root, in this order; root is partition 2 and boot partition 1 of two
\* partitions, root is partition 1 of one; at the end nothing is left mounted.
C25_StepsInOrder ==
    AllSucceeded =>
        /\ dk_nparts \in {1, 2}
        /\ StepsOf(dk_log) = StepsInOrder(dk_nparts = 2)
        /\ \A i \in DOMAIN dk_log :
              /\ StepOf(dk_log[i]) = "mount_root" =>
                    MountsPartition(dk_log[i], IF dk_nparts = 2 THEN "2" ELSE "1")
              /\ StepOf(dk_log[i]) = "mount_boot" => MountsPartition(dk_log[i], "1")
        /\ dk_mounted = {}

\* an image of two partitions, a board with device trees
C25_Witness ==
    /\ AllSucceeded
    /\ dk_dest = "image"
    /\ dk_nparts = 2
    /\ Bool(build_params["dtb_path"])
    /\ StepsOf(dk_log) = <<"mount_root", "mount_boot", "modules", "kernel", "dtbs", "sync",
                           "umount_boot", "umount_root">>
    /\ dk_mounted = {}

\* ---------------------------------------------------------------------------
\* C26: debug mode and the commands that run
\* ---------------------------------------------------------------------------

\* a call of an entry point has been made and has ended, by returning or by exiting
CallEnded == rn_pc \in {"returned", "exit"} /\ rn_call # NoCall

\* C26: debug mode is print-before-execute: with debug enabled a call launches the
\* command it launches with debug disabled, every command printed in debug mode is also
\* executed, and every command executed in debug mode was printed first.
C26_DebugPrintsAndExecutes ==
    (CallEnded /\ debug /\ rn_msg # MakeNotSet) =>
        /\ rn_argv # << >>
        /\ rn_printed # << >> <=> rn_argv # << >>

\* with debug enabled make prints its command and returns without launching it
C26_PrintedNotExecuted ==
    /\ CallEnded
    /\ debug
    /\ rn_call.entry = "make"
    /\ rn_printed # << >>
    /\ rn_argv = << >>
    /\ rn_pc = "returned"

(***************************************************************************)
(* Claims on the words passed on to make                                   *)
(***************************************************************************)
\* make was launched on the words given and ended with this status
MakeRan(status) ==
    \E i \in DOMAIN kb_log :
        kb_log[i] = [argv |-> make_command \o kb_opts.command, status |-> status]
LinksRecreated ==
    \E i \in DOMAIN kb_log : kb_log[i].argv = create_links(build_params)[4]

\* C27: with debug disabled, once make has been run on the words given and has
\* succeeded, make_command recreates the Eclipse links (when they are kept) and the
\* process ends normally, with status 0: it exits with a failure status only when the
\* pass-through did not succeed.
C27_PassThroughEndsNormally ==
    (kb_pc \in {"done", "exit"} /\ ~debug /\ MakeRan("zero")) =>
        /\ kb_pc = "done"
        /\ kb_status = 0
        /\ kb_opts.eclipse_links => LinksRecreated

\* make ran and exited 0, and the process ended with the status of sys.exit(-1), the
\* Eclipse links removed and not recreated
C27_ExitAfterMakeSucceeded ==
    /\ kb_pc = "exit"
    /\ ~debug
    /\ kb_opts.eclipse_links
    /\ MakeRan("zero")
    /\ kb_status = 255
    /\ ~LinksRecreated

(***************************************************************************)
(* Claims on kb build                                                      *)
(***************************************************************************)
BuildEnded == kb_pc \in {"done", "exit"}
\* the command argv was launched and exited non-zero
Failed(argv) == \E i \in DOMAIN kb_log : kb_log[i] = [argv |-> argv, status |-> "nonzero"]
WasLaunched(argv) == \E i \in DOMAIN kb_log : kb_log[i].argv = argv
MakeTargets == make_command \o build_params["build_target"]
MakeModulesInstall == make_command \o Words(<<"modules_install">>)
FinishedAsSuccess == kb_pc = "done" /\ kb_status = 0

\* C21: a failure in either build mode aborts the operation. In plain mode, when
\* making the build targets fails the process ends with the captured error output and
\* modules_install is not run, and when modules_install fails the build does not finish
\* as a success; in packaged mode, when makepkg fails the process ends with its captured
\* error output and no package is reported.
C21_FailureAborts ==
    BuildEnded =>
        /\ (~kb_opts.package /\ Failed(MakeTargets)) =>
               /\ kb_pc = "exit" /\ kb_status # 0 /\ kb_msg = Stderr
               /\ ~WasLaunched(MakeModulesInstall)
        /\ (~kb_opts.package /\ Failed(MakeModulesInstall)) => ~FinishedAsSuccess
        /\ (kb_opts.package /\ Failed(Makepkg)) =>
               /\ kb_pc = "exit" /\ kb_status # 0 /\ kb_msg = Stderr
               /\ kb_out = << >>

\* make modules_install exited non-zero and kb build returned with status 0
C21_ModulesInstallFailureIgnored ==
    /\ BuildEnded
    /\ ~kb_opts.package
    /\ Failed(MakeModulesInstall)
    /\ FinishedAsSuccess

(***************************************************************************)
(* Claims on the start of the kernel builder                               *)
(***************************************************************************)
\* the compiler probe '<cc_path>/<cc>gcc --version' of the board, and the ccache probe
GccProbe ==
    IF is_x86(build_params) THEN Words(<<"gcc", "--version">>)
    ELSE << (IF build_params["cc_path"] # << >> THEN build_params["cc_path"] \o <<"/">>
             ELSE << >>) \o build_params["cc"] \o <<"gcc">>, <<"--version">> >>
CcacheProbe == Words(<<"ccache", "--version">>)
\* the way the n-th command launched ended when it is probe, "" otherwise
ProbeStatus(n, probe) ==
    IF Len(kb_log) >= n /\ kb_log[n].argv = probe THEN kb_log[n].status ELSE ""
CompilerProbed == kb_pc \in {"paths", "done", "exit", "crash"} /\ kb_log # << >>
\* PATH as the process found it, and with the cross-compiler directory in front
Path0 == ValueOf("PATH")
UncachedPath ==
    IF is_x86(build_params) \/ build_params["cc_path"] = << >> THEN Path0
    ELSE build_params["cc_path"] \o <<"/", ":">> \o Path0

\* C23: when the kernel builder starts and '<cc_path>/<cc>gcc --version' cannot be
\* run, the process ends with 'Error! Compiler not found'; when the compiler runs and
\* 'ccache --version' cannot be run or fails, the process does not end and the
\* uncached path is used: PATH is prefixed with the cross-compiler directory on a
\* board that is not x86 and has one, and is left as it was on an x86 board.
C23_CompilerAndCcache ==
    CompilerProbed =>
        /\ ProbeStatus(1, GccProbe) \in {"notfound", "nonzero"} =>
               kb_pc = "exit" /\ kb_msg = CompilerNotFound /\ kb_path = Path0
        /\ (ProbeStatus(1, GccProbe) = "zero"
              /\ ProbeStatus(2, CcacheProbe) \in {"notfound", "nonzero"}) =>
               kb_pc \in {"paths", "done"} /\ kb_msg = << >> /\ kb_path = UncachedPath

\* an arm64 board with a cross-compiler directory whose compiler runs, ccache missing:
\* the builder is constructed with that directory in front of PATH
C23_Witness ==
    /\ kb_pc = "done"
    /\ ~is_x86(build_params)
    /\ build_params["cc_path"] # << >>
    /\ ProbeStatus(1, GccProbe) = "zero"
    /\ ProbeStatus(2, CcacheProbe) = "notfound"
    /\ kb_path = build_params["cc_path"] \o <<"/", ":">> \o Path0

(***************************************************************************)
(* Claims on the wrappers and the shared current_command                   *)
(***************************************************************************)
PrefixOf(p, argv) == Len(argv) >= Len(p) /\ SubSeq(argv, 1, Len(p)) = p
\* the steps of kb cp and kb scp that call a wrapper
WrapperSteps ==
    {"mount_root", "mount_boot", "modules", "kernel", "dtbs", "umount_boot", "umount_root",
     "package", "ramfs"}
\* the wrapper named at the call site of the k-th command a step launches
WrapperAt(step, k) ==
    CASE step \in {"mount_root", "umount_boot", "umount_root"} ->
             IF step = "mount_root" THEN "mount" ELSE "umount"
      [] step = "mount_boot" -> IF k = 1 THEN "mount" ELSE "umount"
      [] step \in {"modules", "dtbs"} -> IF Net THEN "net_rsync" ELSE "disk_rsync"
      [] step = "kernel" -> IF Net THEN "scp" ELSE "disk_rsync"
      [] step = "package" -> IF k = 1 THEN "scp" ELSE "ssh"
      [] step = "ramfs" -> "ssh"
\* sudo goes in front on a disk or an image, and for every mount and umount
SudoAt(step) ==
    IF ToDisk \/ step \in {"mount_root", "mount_boot", "umount_boot", "umount_root"}
    THEN <<<<"sudo">>>> ELSE << >>
\* argv is the command of wrapper w, and of no wrapper whose command is longer
ExecutesWrapper(w, sudo, argv) ==
    /\ PrefixOf(sudo \o commands[w], argv)
    /\ \A other \in Wrappers :
         PrefixOf(sudo \o commands[other], argv) => Len(commands[other]) <= Len(commands[w])

\* a step: the commands it launches are those of the wrappers named at its call sites
CallSiteWrapperStep ==
    dk_pc \in WrapperSteps =>
        \A k \in 1..(Len(dk_log') - Len(dk_log)) :
            ExecutesWrapper(WrapperAt(dk_pc, k), SudoAt(dk_pc), dk_log'[Len(dk_log) + k])

\* C30: in the network copy, the folder copy, the copy to a disk or an image with its
\* mounts and unmounts, and the ramfs update, every command a wrapper launches starts
\* with the command of the wrapper named at its call site, though all the wrappers
\* share current_command.
C30_CallSiteWrapper == [][CallSiteWrapperStep]_vars

\* a network copy with the ramfs update that ran to its end: net_rsync, scp, net_rsync
\* again for the device trees, and ssh last
C30_Witness ==
    /\ dk_pc = "done"
    /\ dk_dest = "net_ramfs"
    /\ ~debug
    /\ Bool(build_params["ramfs_file"])
    /\ Len(dk_log) >= 6
    /\ ExecutesWrapper("net_rsync", << >>, dk_log[Len(dk_log) - 2])
    /\ ExecutesWrapper("scp", << >>, dk_log[Len(dk_log) - 1])
    /\ ExecutesWrapper("ssh", << >>, dk_log[Len(dk_log)])
    /\ current_command = commands["ssh"]

====
